---- MODULE Spec2Model ----
(***************************************************************************)
(* Blocksmith-BR: the pack installer (FileMover), the install commands of  *)
(* lib.rs and the install reconciler (compute_pack_status), with the       *)
(* name/version heuristics they share.                                     *)
(*                                                                         *)
(* Strings are sequences of one-character strings, so that the suffix      *)
(* tables and the regular expressions of the source are computed, not      *)
(* assumed.  An Option<T> is a sequence of length 0 (None) or 1 (Some).    *)
(***************************************************************************)
EXTENDS Integers, Sequences, FiniteSets, TLC

VARIABLES
    folders,            \* the pack folders on disk: path -> content
    sources,            \* the source archives that still exist on disk
    escaped,            \* files written outside the output folder of an install
    history,            \* FileMover.history of the live FileMover
    last,               \* the most recent call and what it returned
    prev,               \* the call before it
    steps,              \* calls made so far (tasks spawned and rollbacks, for the commands)
    settings,           \* AppState.settings
    cmd,                \* process_packs: the running command (mover, batch, ...)
    tpc,                \* process_packs: each spawned task's position
    permits,            \* process_packs: free permits of the semaphore
    status,             \* compute_pack_status: the returned candidates
    scan                \* the scan directory, the last scan call and its result

vars == <<folders, sources, escaped, history, last, prev, steps, settings,
          cmd, tpc, permits, status, scan>>

None == << >>
Some(x) == <<x>>
IsSome(o) == Len(o) = 1
Unwrap(o) == o[1]

(***************************************************************************)
(* Characters and strings                                                  *)
(***************************************************************************)
UpperChars == <<"A","B","C","D","E","F","G","H","I","J","K","L","M",
                "N","O","P","Q","R","S","T","U","V","W","X","Y","Z">>
LowerChars == <<"a","b","c","d","e","f","g","h","i","j","k","l","m",
                "n","o","p","q","r","s","t","u","v","w","x","y","z">>

LowerChar(c) ==
    IF \E i \in 1..26 : UpperChars[i] = c
    THEN LowerChars[CHOOSE i \in 1..26 : UpperChars[i] = c]
    ELSE c

to_lowercase(s) == [i \in 1..Len(s) |-> LowerChar(s[i])]

IsDigit(c) == c \in {"0","1","2","3","4","5","6","7","8","9"}
IsSpace(c) == c \in {" ", "\t"}

ends_with(s, suf) ==
    /\ Len(suf) <= Len(s)
    /\ SubSeq(s, Len(s) - Len(suf) + 1, Len(s)) = suf

starts_with(s, pre) ==
    /\ Len(pre) <= Len(s)
    /\ SubSeq(s, 1, Len(pre)) = pre

DropLast(s, n) == SubSeq(s, 1, Len(s) - n)
DropFirst(s, n) == SubSeq(s, n + 1, Len(s))

RECURSIVE trim_start(_)
trim_start(s) ==
    IF Len(s) > 0 /\ IsSpace(s[1]) THEN trim_start(Tail(s)) ELSE s

RECURSIVE trim_end(_)
trim_end(s) ==
    IF Len(s) > 0 /\ IsSpace(s[Len(s)]) THEN trim_end(DropLast(s, 1)) ELSE s

trim(s) == trim_end(trim_start(s))

RECURSIVE trim_start_matches(_, _)
trim_start_matches(s, c) ==
    IF Len(s) > 0 /\ s[1] = c THEN trim_start_matches(Tail(s), c) ELSE s

RECURSIVE trim_end_matches(_, _)
trim_end_matches(s, suf) ==
    IF Len(suf) > 0 /\ ends_with(s, suf)
    THEN trim_end_matches(DropLast(s, Len(suf)), suf)
    ELSE s

\* the first suffix of the table that s ends with is cut off (loop with break)
RECURSIVE StripFirstSuffix(_, _)
StripFirstSuffix(s, table) ==
    IF table = << >> THEN s
    ELSE IF ends_with(s, Head(table)) THEN DropLast(s, Len(Head(table)))
    ELSE StripFirstSuffix(s, Tail(table))

\* every suffix of the table is tried in turn on the running result (no break)
RECURSIVE StripEachSuffix(_, _)
StripEachSuffix(s, table) ==
    IF table = << >> THEN s
    ELSE StripEachSuffix(
            IF ends_with(s, Head(table)) THEN DropLast(s, Len(Head(table))) ELSE s,
            Tail(table))

(***************************************************************************)
(* Regular-expression pieces.  DigitsEnd(s, i) is the last index of the    *)
(* greedy match of \d+ that starts at i (i - 1 when there is none);        *)
(* DottedEnd the same for \d+(\.\d+)*.                                     *)
(***************************************************************************)
CharAt(s, i) == IF i >= 1 /\ i <= Len(s) THEN s[i] ELSE ""

RECURSIVE DigitsEnd(_, _)
DigitsEnd(s, i) ==
    IF IsDigit(CharAt(s, i)) THEN
        (IF IsDigit(CharAt(s, i + 1)) THEN DigitsEnd(s, i + 1) ELSE i)
    ELSE i - 1

RECURSIVE DottedFrom(_, _)
DottedFrom(s, e) ==
    IF CharAt(s, e + 1) = "." /\ IsDigit(CharAt(s, e + 2))
    THEN DottedFrom(s, DigitsEnd(s, e + 2))
    ELSE e

DottedEnd(s, i) ==
    IF IsDigit(CharAt(s, i)) THEN DottedFrom(s, DigitsEnd(s, i)) ELSE i - 1

HasDigits(s, i) == IsDigit(CharAt(s, i))
\* \d+(\.\d+)+ : at least one dotted group
HasDotted2(s, i) == HasDigits(s, i) /\ DottedEnd(s, i) > DigitsEnd(s, i)

RECURSIVE SpacesEnd(_, _)
SpacesEnd(s, i) ==
    IF IsSpace(CharAt(s, i)) THEN SpacesEnd(s, i + 1) ELSE i - 1

MinOf(S) == CHOOSE x \in S : \A y \in S : x <= y

(***************************************************************************)
(* Pack types and the type-suffix table (file_mover.rs)                    *)
(***************************************************************************)
PackTypes == {"BehaviorPack", "ResourcePack", "SkinPack", "SkinPack4D",
              "WorldTemplate", "MashupPack", "Unknown"}

type_suffix(pack_type) ==
    CASE pack_type = "BehaviorPack"  -> <<" ","(","A","D","D","O","N",")">>
      [] pack_type = "ResourcePack"  -> <<" ","(","R","E","S","O","U","R","C","E",")">>
      [] pack_type = "SkinPack"      -> <<" ","(","S","K","I","N",")">>
      [] pack_type = "SkinPack4D"    -> << >>
      [] pack_type = "WorldTemplate" -> <<" ","(","T","E","M","P","L","A","T","E",")">>
      [] pack_type = "MashupPack"    -> <<" ","(","M","A","S","H","U","P",")">>
      [] OTHER                       -> << >>

MoverSuffixes ==
    <<<<" ","(","A","D","D","O","N",")">>, <<"(","A","D","D","O","N",")">>, <<" ","(","R","E","S","O","U","R","C","E",")">>, <<"(","R","E","S","O","U","R","C","E",")">>,
      <<" ","(","S","K","I","N",")">>, <<"(","S","K","I","N",")">>, <<" ","(","T","E","M","P","L","A","T","E",")">>, <<"(","T","E","M","P","L","A","T","E",")">>,
      <<" ","(","M","A","S","H","U","P",")">>, <<"(","M","A","S","H","U","P",")">>>>

strip_pack_suffix(name) == trim(StripFirstSuffix(name, MoverSuffixes))

(***************************************************************************)
(* Name/version heuristics (lib.rs)                                        *)
(***************************************************************************)
BaseNameSuffixes ==
    <<<<" ","(","a","d","d","o","n",")">>, <<"(","a","d","d","o","n",")">>, <<" ","(","a","d","d","-","o","n",")">>, <<"(","a","d","d","-","o","n",")">>,
      <<" ","(","r","e","s","o","u","r","c","e",")">>, <<"(","r","e","s","o","u","r","c","e",")">>, <<" ","(","r","e","s","o","u","r","c","e","s",")">>, <<"(","r","e","s","o","u","r","c","e","s",")">>,
      <<" ","(","b","e","h","a","v","i","o","r",")">>, <<"(","b","e","h","a","v","i","o","r",")">>, <<" ","(","b","e","h","a","v","i","o","u","r",")">>, <<"(","b","e","h","a","v","i","o","u","r",")">>,
      <<" ","(","b","p",")">>, <<"(","b","p",")">>, <<" ","(","r","p",")">>, <<"(","r","p",")">>,
      <<" ","(","s","k","i","n",")">>, <<"(","s","k","i","n",")">>, <<" ","(","s","k","i","n","s",")">>, <<"(","s","k","i","n","s",")">>,
      <<" ","(","t","e","m","p","l","a","t","e",")">>, <<"(","t","e","m","p","l","a","t","e",")">>, <<" ","(","w","o","r","l","d","_","t","e","m","p","l","a","t","e",")">>, <<"(","w","o","r","l","d","_","t","e","m","p","l","a","t","e",")">>,
      <<" ","(","m","a","s","h","u","p",")">>, <<"(","m","a","s","h","u","p",")">>, <<" ","(","m","a","s","h","-","u","p",")">>, <<"(","m","a","s","h","-","u","p",")">>>>

PathSuffixes ==
    <<<<" ","(","A","D","D","O","N",")">>, <<"(","A","D","D","O","N",")">>, <<" ","(","a","d","d","o","n",")">>, <<"(","a","d","d","o","n",")">>,
      <<" ","(","R","E","S","O","U","R","C","E",")">>, <<"(","R","E","S","O","U","R","C","E",")">>, <<" ","(","r","e","s","o","u","r","c","e",")">>, <<"(","r","e","s","o","u","r","c","e",")">>,
      <<" ","(","S","K","I","N",")">>, <<"(","S","K","I","N",")">>, <<" ","(","s","k","i","n",")">>, <<"(","s","k","i","n",")">>,
      <<" ","(","T","E","M","P","L","A","T","E",")">>, <<"(","T","E","M","P","L","A","T","E",")">>, <<" ","(","t","e","m","p","l","a","t","e",")">>, <<"(","t","e","m","p","l","a","t","e",")">>,
      <<" ","(","M","A","S","H","U","P",")">>, <<"(","M","A","S","H","U","P",")">>, <<" ","(","m","a","s","h","u","p",")">>, <<"(","m","a","s","h","u","p",")">>>>

PackExtensions ==
    <<<<".","m","c","p","a","c","k">>, <<".","m","c","a","d","d","o","n">>, <<".","m","c","t","e","m","p","l","a","t","e">>>>

\* the bodies of VERSION_PATTERN_1..4 after their leading \s+, anchored at $
VersionBody1(s, j) ==
    LET d == IF CharAt(s, j) = "v" THEN j + 1 ELSE j
    IN  /\ CharAt(s, d) = "."
        /\ HasDigits(s, d + 1)
        /\ DottedEnd(s, d + 1) = Len(s)
VersionBody2(s, j) ==
    /\ CharAt(s, j) = "v"
    /\ HasDigits(s, j + 1)
    /\ DottedEnd(s, j + 1) = Len(s)
VersionBody3(s, j) == HasDotted2(s, j) /\ DottedEnd(s, j) = Len(s)
VersionBody4(s, j) == HasDigits(s, j) /\ DigitsEnd(s, j) = Len(s)

VersionBody(k, s, j) ==
    CASE k = 1 -> VersionBody1(s, j)
      [] k = 2 -> VersionBody2(s, j)
      [] k = 3 -> VersionBody3(s, j)
      [] OTHER -> VersionBody4(s, j)

\* where VERSION_PATTERN_k matches in s (the leftmost start), 0 when nowhere
VersionPatternStart(k, s) ==
    LET starts == {i \in 1..Len(s) :
                      IsSpace(s[i]) /\ VersionBody(k, s, SpacesEnd(s, i) + 1)}
    IN  IF starts = {} THEN 0 ELSE MinOf(starts)

\* pattern.replace(&cleaned, ""): the match runs to the end of the string
VersionPatternReplace(k, s) ==
    IF VersionPatternStart(k, s) = 0 THEN s
    ELSE SubSeq(s, 1, VersionPatternStart(k, s) - 1)

RECURSIVE StripVersion(_, _)
StripVersion(s, k) ==
    IF k > 4 THEN s
    ELSE IF Len(VersionPatternReplace(k, s)) # Len(s)
         THEN VersionPatternReplace(k, s)
         ELSE StripVersion(s, k + 1)

\* the name lower-cased and trimmed, nothing stripped
LowercasedName(name) == trim(to_lowercase(name))

extract_base_name(name) ==
    trim(StripVersion(StripEachSuffix(to_lowercase(name), BaseNameSuffixes), 1))

\* EXTRACT_VERSION_1..6: the capture of the leftmost match, as <<from, to>>,
\* or << >> when the pattern matches nowhere
ExtractMatches(k, s) ==
    CASE k = 1 -> {i \in 1..Len(s) : s[i] = "." /\ HasDigits(s, i + 1)}
      [] k = 2 -> {i \in 1..Len(s) : s[i] = "v" /\ HasDigits(s, i + 1)}
      [] k = 3 -> {i \in 1..Len(s) :
                      /\ IsSpace(s[i])
                      /\ HasDotted2(s, i + 1)
                      /\ CharAt(s, SpacesEnd(s, DottedEnd(s, i + 1) + 1) + 1) = "("}
      [] k = 4 -> {i \in 1..Len(s) :
                      /\ IsSpace(s[i])
                      /\ HasDotted2(s, i + 1)
                      /\ DottedEnd(s, i + 1) = Len(s)}
      [] k = 5 -> {i \in 1..Len(s) :
                      /\ IsSpace(s[i])
                      /\ HasDigits(s, i + 1)
                      /\ CharAt(s, SpacesEnd(s, DigitsEnd(s, i + 1) + 1) + 1) = "("}
      [] OTHER -> {i \in 1..Len(s) :
                      /\ IsSpace(s[i])
                      /\ HasDigits(s, i + 1)
                      /\ IsSpace(CharAt(s, DottedEnd(s, i + 1) + 1))}

ExtractCapture(k, s) ==
    LET m == ExtractMatches(k, s)
        at == MinOf(m) + 1
    IN  IF m = {} THEN None
        ELSE IF k = 5 THEN Some(SubSeq(s, at, DigitsEnd(s, at)))
        ELSE Some(SubSeq(s, at, DottedEnd(s, at)))

RECURSIVE FirstCapture(_, _)
FirstCapture(s, k) ==
    IF k > 6 THEN None
    ELSE IF IsSome(ExtractCapture(k, s)) THEN ExtractCapture(k, s)
    ELSE FirstCapture(s, k + 1)

extract_version_from_name(name) == FirstCapture(to_lowercase(name), 1)

RECURSIVE StripExtensions(_, _)
StripExtensions(s, exts) ==
    IF exts = << >> THEN s
    ELSE StripExtensions(trim_end_matches(s, Head(exts)), Tail(exts))

\* path is the last component of the path (the split on '/' and '\' is done
\* by the caller, which keeps directories and file names apart)
extract_version_from_path(file_name) ==
    LET name_without_ext == StripExtensions(file_name, PackExtensions)
    IN  IF IsSome(extract_version_from_name(name_without_ext))
        THEN extract_version_from_name(name_without_ext)
        ELSE extract_version_from_name(
                 StripFirstSuffix(name_without_ext, PathSuffixes))

OrElse(a, b) == IF IsSome(a) THEN a ELSE b

(***************************************************************************)
(* Paths.  A directory is a string; a pack folder is <<root, name>> as the *)
(* record [root, name]; a source archive is [dir, file].  The file system  *)
(* compares names exactly (case-sensitive).                                *)
(***************************************************************************)
Folder(root, name) == [root |-> root, name |-> name]
Exists(fs, p) == p \in DOMAIN fs

\* fs::remove_dir_all on an existing folder / fs::create_dir_all
RemoveDirAll(fs, p) == [q \in (DOMAIN fs) \ {p} |-> fs[q]]
PutFolder(fs, p, c) == [q \in (DOMAIN fs) \cup {p} |-> IF q = p THEN c ELSE fs[q]]

\* Path::file_stem: the file name up to its last '.', a leading '.' kept
file_stem(file) ==
    LET dots == {i \in 2..Len(file) : file[i] = "."}
    IN  IF dots = {} THEN file
        ELSE SubSeq(file, 1, (CHOOSE i \in dots : \A j \in dots : j <= i) - 1)

\* the components of a relative path: split on '/', empty and "." dropped
RECURSIVE Components(_)
Components(rel) ==
    LET cut  == {i \in 1..Len(rel) : rel[i] = "/"}
        at   == IF cut = {} THEN Len(rel) + 1 ELSE MinOf(cut)
        head == SubSeq(rel, 1, at - 1)
        rest == IF at > Len(rel) THEN << >> ELSE Components(DropFirst(rel, at))
    IN  IF rel = << >> THEN << >>
        ELSE IF head = << >> \/ head = <<".">> THEN rest
        ELSE <<head>> \o rest

ParentDir == <<".", ".">>
HasParentDir(rel) ==
    \E i \in 1..Len(Components(rel)) : Components(rel)[i] = ParentDir

\* whether output_path.join(rel) names a place outside output_path
RECURSIVE LeavesFolder(_, _)
LeavesFolder(comps, depth) ==
    IF comps = << >> THEN FALSE
    ELSE IF Head(comps) = ParentDir
         THEN (depth = 0 \/ LeavesFolder(Tail(comps), depth - 1))
         ELSE LeavesFolder(Tail(comps), depth + 1)

Escapes(rel) == LeavesFolder(Components(rel), 0)

\* the directory part of a relative file path (outpath.parent()), << >> at the top
ParentOf(rel) ==
    LET cut == {i \in 1..Len(rel) : rel[i] = "/"}
    IN  IF cut = {} THEN << >>
        ELSE SubSeq(rel, 1, (CHOOSE i \in cut : \A j \in cut : j <= i) - 1)

(***************************************************************************)
(* Archives.  An entry has its name in the archive, whether its unix mode  *)
(* marks a symbolic link, whether it can be read ("ok"; "header": by_index *)
(* fails; "data": its bytes fail to decompress) and, for a manifest.json,  *)
(* the header that read_pack_metadata_fast reads back once extracted.      *)
(***************************************************************************)
ErrRemoveExisting == "Failed to remove existing directory"
ErrCreateDir      == "Failed to create directory"
ErrOpenFile       == "Failed to open file"
ErrReadArchive    == "Failed to read archive"
ErrReadEntry      == "Failed to read archive entry"
ErrSecurity       == "Security: Attempted path traversal in zip file"
ErrRead           == "Failed to read"
ErrNoDestination  == "No destination path configured"
ErrGone           == "Extracted folder no longer exists"
ErrRemove         == "remove_dir_all failed"

\* the I/O steps of an install that the environment may fail (one per call)
IoFaults == {"none", "remove_old", "remove_existing", "create_dir", "open"}

\* lines 731-749: the path of an entry relative to the output folder;
\* None when the entry is skipped (outside the subfolder, or nothing left)
InsideSubfolder(name, subfolder, sf) ==
    IF ~IsSome(subfolder) THEN Some(name)
    ELSE IF starts_with(name, sf \o <<"/">>)
         THEN Some(DropFirst(name, Len(sf) + 1))
    ELSE IF starts_with(name, sf)
         THEN Some(trim_start_matches(DropFirst(name, Len(sf)), "/"))
    ELSE None

NonEmptyPath(trimmed) == IF trimmed = << >> THEN None ELSE Some(trimmed)

TrimmedPath(inside) ==
    IF ~IsSome(inside) THEN None
    ELSE NonEmptyPath(trim_start_matches(Unwrap(inside), "/"))

RelativePath(name, subfolder) ==
    TrimmedPath(InsideSubfolder(name, subfolder, Unwrap(subfolder)))

\* a planning pass that refuses no entry
RefusesNothing(rel) == FALSE

\* lines 751-759: the entry is refused
IsTraversal(rel) == HasParentDir(rel)

\* lines 717-774, the planning pass from entry i on: what to create, or the
\* error that ends it.  files is the sequence of <<entry index, relative path>>
RECURSIVE PlanFrom(_, _, _, _, _)
RECURSIVE PlanEntry(_, _, _, _, _, _, _)
PlanFrom(entries, i, subfolder, dirs, files) ==
    IF i > Len(entries) THEN [err |-> None, dirs |-> dirs, files |-> files]
    ELSE PlanEntry(entries, i, subfolder, dirs, files, entries[i],
                   RelativePath(entries[i].name, subfolder))

\* lines 718-773: entry i, rel its path relative to the subfolder
PlanEntry(entries, i, subfolder, dirs, files, e, rel) ==
    IF e.corrupt = "header"
    THEN [err |-> Some(ErrReadEntry), dirs |-> dirs, files |-> files]
    ELSE IF e.symlink \/ ~IsSome(rel)
    THEN PlanFrom(entries, i + 1, subfolder, dirs, files)
    ELSE IF IsTraversal(Unwrap(rel))
    THEN [err |-> Some(ErrSecurity), dirs |-> dirs, files |-> files]
    ELSE IF ends_with(e.name, <<"/">>)
    THEN PlanFrom(entries, i + 1, subfolder, dirs \cup {Unwrap(rel)}, files)
    ELSE PlanFrom(entries, i + 1, subfolder,
                  IF ParentOf(Unwrap(rel)) = << >> THEN dirs
                  ELSE dirs \cup {ParentOf(Unwrap(rel))},
                  Append(files, <<i, Unwrap(rel)>>))

\* lines 789-808, the writing pass from the k-th planned file on
RECURSIVE WriteFrom(_, _, _, _, _, _)
WriteFrom(entries, files, k, content, esc, output_path) ==
    IF k > Len(files) THEN [err |-> None, content |-> content, esc |-> esc]
    ELSE
      LET e    == entries[files[k][1]]
          rel  == files[k][2]
          file == [path |-> rel,
                   json |-> IF e.corrupt = "data" THEN None ELSE e.json,
                   size |-> IF e.corrupt = "data" THEN 0 ELSE e.size]
          c2   == IF Escapes(rel) THEN content
                  ELSE [content EXCEPT !.files = @ \cup {file}]
          esc2 == IF Escapes(rel)
                  THEN esc \cup {[from |-> output_path, path |-> rel]}
                  ELSE esc
      IN  IF e.corrupt = "data"
          THEN [err |-> Some(ErrRead), content |-> c2, esc |-> esc2]
          ELSE WriteFrom(entries, files, k + 1, c2, esc2, output_path)

ExtractErr(e, fs, esc) == [ok |-> FALSE, path |-> None, error |-> Some(e),
                           fs |-> fs, escaped |-> esc]

\* lines 776-810: the writing pass has ended
ExtractWritten(fs2, output_path, wrote) ==
    IF IsSome(wrote.err)
    THEN ExtractErr(Unwrap(wrote.err),
                    PutFolder(fs2, output_path, wrote.content), wrote.esc)
    ELSE [ok |-> TRUE, path |-> Some(output_path), error |-> None,
          fs |-> PutFolder(fs2, output_path, wrote.content),
          escaped |-> wrote.esc]

\* lines 717-774: the planning pass has ended
ExtractPlanned(fs2, esc, arch, output_path, plan) ==
    IF IsSome(plan.err) THEN ExtractErr(Unwrap(plan.err), fs2, esc)
    ELSE ExtractWritten(fs2, output_path,
             WriteFrom(arch.entries, plan.files, 1,
                       [files |-> {}, dirs |-> plan.dirs], esc, output_path))

\* lines 709-711: the archive is opened
ExtractOpen(fs2, esc, srcs, arch, file_path, subfolder, io, output_path) ==
    IF file_path \notin srcs \/ io = "open"
    THEN ExtractErr(ErrOpenFile, fs2, esc)
    ELSE IF ~arch.zip THEN ExtractErr(ErrReadArchive, fs2, esc)
    ELSE ExtractPlanned(fs2, esc, arch, output_path,
                        PlanFrom(arch.entries, 1, subfolder, {}, << >>))

\* line 707: the output folder is created
ExtractCreate(fs1, esc, srcs, arch, file_path, subfolder, io, output_path) ==
    IF io = "create_dir" THEN ExtractErr(ErrCreateDir, fs1, esc)
    ELSE ExtractOpen(PutFolder(fs1, output_path, [files |-> {}, dirs |-> {}]),
                     esc, srcs, arch, file_path, subfolder, io, output_path)

\* lines 702-705: an existing output folder is removed
ExtractRemove(fs, esc, srcs, arch, file_path, subfolder, io, output_path) ==
    IF Exists(fs, output_path) /\ io = "remove_existing"
    THEN ExtractErr(ErrRemoveExisting, fs, esc)
    ELSE ExtractCreate(IF Exists(fs, output_path)
                       THEN RemoveDirAll(fs, output_path) ELSE fs,
                       esc, srcs, arch, file_path, subfolder, io, output_path)

\* pack_detector.rs extract_pack_to_destination.  arch is the archive stored
\* at file_path, srcs the source files that exist, io the step the
\* environment fails.
extract_pack_to_destination(fs, esc, srcs, arch, file_path, destination_dir, pack_type, subfolder, output_name_override, io) ==
    ExtractRemove(fs, esc, srcs, arch, file_path, subfolder, io,
                  Folder(destination_dir,
                         IF IsSome(output_name_override)
                         THEN Unwrap(output_name_override)
                         ELSE file_stem(file_path.file) \o type_suffix(pack_type)))

(***************************************************************************)
(* FileMover (file_mover.rs)                                               *)
(***************************************************************************)
FourDDir == "/4D Skin Packs"

\* FileMover::new: the settings and an empty history
FileMoverNew(st) == [settings |-> st, history |-> << >>]

get_destination_path(st, pack_type, scan_dir) ==
    CASE pack_type = "SkinPack4D" ->
            (IF IsSome(scan_dir) THEN Some(Unwrap(scan_dir) \o FourDDir) ELSE None)
      [] pack_type = "BehaviorPack" -> st.behavior_pack_path
      [] pack_type = "ResourcePack" -> st.resource_pack_path
      [] pack_type = "SkinPack" -> st.skin_pack_path
      [] pack_type \in {"WorldTemplate", "MashupPack"} -> st.world_template_path
      [] OTHER -> None

\* lines 59-73: the folder is another install of the same pack
IsOldPack(folder_name, pack_name, pack_type) ==
    /\ to_lowercase(strip_pack_suffix(folder_name))
         = to_lowercase(strip_pack_suffix(pack_name))
    /\ folder_name # strip_pack_suffix(pack_name) \o type_suffix(pack_type)

\* find_old_pack_path returns the first match in read_dir order, which the
\* file system does not fix: any of these, or None when there is none
OldPackPaths(fs, dest_base, pack_name, pack_type) ==
    {p \in DOMAIN fs : p.root = dest_base /\ IsOldPack(p.name, pack_name, pack_type)}

find_old_pack_path(fs, dest_base, pack_name, pack_type) ==
    IF OldPackPaths(fs, dest_base, pack_name, pack_type) = {} THEN {None}
    ELSE {Some(p) : p \in OldPackPaths(fs, dest_base, pack_name, pack_type)}

unwrap_or_false(o) == IF IsSome(o) THEN Unwrap(o) ELSE FALSE

\* lines 138-162: the destination root, None when there is none
DestBase(st, pack, scan_dir) ==
    IF pack.pack_type = "SkinPack4D" THEN Some(pack.path.dir \o FourDDir)
    ELSE get_destination_path(st, pack.pack_type, scan_dir)

\* lines 180-184: the choices read_dir leaves for old_pack_path
OldPackChoices(st, fs, pack, scan_dir) ==
    IF /\ IsSome(DestBase(st, pack, scan_dir))
       /\ pack.pack_type # "SkinPack4D"
       /\ unwrap_or_false(pack.is_update)
    THEN find_old_pack_path(fs, Unwrap(DestBase(st, pack, scan_dir)),
                            pack.name, pack.pack_type)
    ELSE {None}

\* what process_pack reports as deleted_old_path after a successful extraction
ReportedDeleted(old_pack_path) == old_pack_path

\* a candidate without destination that is passed over as if installed
PassedOver(mv, fs, esc, pack) ==
    [op |-> [source |-> pack.path, pack_type |-> pack.pack_type,
             destination |-> None, pack_name |-> pack.name,
             success |-> TRUE, error |-> None,
             is_template_update |-> None, skin_pack_4d_path |-> None,
             deleted_old_path |-> None],
     fs |-> fs, escaped |-> esc, history |-> mv.history,
     removed_old |-> FALSE]

\* lines 147-160: no destination is configured
NoDestination(mv, fs, esc, pack) ==
    [op |-> [source |-> pack.path, pack_type |-> pack.pack_type,
             destination |-> None, pack_name |-> pack.name,
             success |-> FALSE, error |-> Some(ErrNoDestination),
             is_template_update |-> None, skin_pack_4d_path |-> None,
             deleted_old_path |-> None],
     fs |-> fs, escaped |-> esc, history |-> mv.history,
     removed_old |-> FALSE]

\* lines 186-202: the synthetic result of a dry run
DryRun(mv, fs, esc, pack, old_pack_path, destination, is_template_update) ==
    [op |-> [source |-> pack.path, pack_type |-> pack.pack_type,
             destination |-> Some(destination),
             pack_name |-> pack.name \o type_suffix(pack.pack_type),
             success |-> TRUE, error |-> None,
             is_template_update |->
                 IF is_template_update THEN Some(TRUE) ELSE None,
             skin_pack_4d_path |->
                 IF pack.pack_type = "SkinPack4D" THEN Some(destination)
                 ELSE None,
             deleted_old_path |-> old_pack_path],
     fs |-> fs, escaped |-> esc, history |-> mv.history,
     removed_old |-> FALSE]

\* lines 248-258: the MoveOperation of a successful extraction
SuccessOp(pack, old_pack_path, is_template_update, dest_path) ==
    [source |-> pack.path, pack_type |-> pack.pack_type,
     destination |-> dest_path,
     pack_name |-> pack.name \o type_suffix(pack.pack_type),
     success |-> TRUE, error |-> None,
     is_template_update |-> IF is_template_update THEN Some(TRUE) ELSE None,
     skin_pack_4d_path |->
         IF pack.pack_type = "SkinPack4D" THEN dest_path ELSE None,
     deleted_old_path |-> ReportedDeleted(old_pack_path)]

\* a successful install that is returned and not pushed to the history
NotLogged(mv, op, ex, removed_old) ==
    [op |-> op, fs |-> ex.fs, escaped |-> ex.escaped,
     history |-> mv.history, removed_old |-> removed_old]

\* line 259: the operation is pushed to the history and returned
Logged(mv, op, ex, removed_old) ==
    [op |-> op, fs |-> ex.fs, escaped |-> ex.escaped,
     history |-> Append(mv.history, op), removed_old |-> removed_old]

\* lines 239-276: the result of the extraction becomes the MoveOperation
Extracted(mv, pack, old_pack_path, destination, is_template_update, removed_old, ex) ==
    IF ex.ok
    THEN Logged(mv, SuccessOp(pack, old_pack_path, is_template_update, ex.path),
                ex, removed_old)
    ELSE [op |-> [source |-> pack.path, pack_type |-> pack.pack_type,
                  destination |-> Some(destination),
                  pack_name |-> pack.name \o type_suffix(pack.pack_type),
                  success |-> FALSE, error |-> ex.error,
                  is_template_update |-> None, skin_pack_4d_path |-> None,
                  deleted_old_path |-> None],
          fs |-> ex.fs, escaped |-> ex.escaped, history |-> mv.history,
          removed_old |-> removed_old]

\* lines 208-237: the stale folder is removed, its failure ignored, and the
\* archive extracted
RemoveOldAndExtract(mv, fs, esc, srcs, arch, pack, old_pack_path, io, dest_base, destination, is_template_update, removed_old) ==
    Extracted(mv, pack, old_pack_path, destination, is_template_update,
              removed_old,
              extract_pack_to_destination(
                  IF removed_old THEN RemoveDirAll(fs, Unwrap(old_pack_path))
                  ELSE fs,
                  esc, srcs, arch, pack.path, dest_base, pack.pack_type,
                  pack.subfolder,
                  Some(pack.name \o type_suffix(pack.pack_type)), io))

\* lines 164-202, with the destination root known
ProcessPackTo(mv, fs, esc, srcs, arch, pack, old_pack_path, io, dest_base, destination, is_template_update) ==
    IF mv.settings.dry_run
    THEN DryRun(mv, fs, esc, pack, old_pack_path, destination,
                is_template_update)
    ELSE RemoveOldAndExtract(mv, fs, esc, srcs, arch, pack, old_pack_path, io,
                             dest_base, destination, is_template_update,
                             IsSome(old_pack_path) /\ io # "remove_old")

\* lines 177-178
IsTemplateUpdate(fs, pack, destination) ==
    /\ pack.pack_type \in {"WorldTemplate", "MashupPack"}
    /\ Exists(fs, destination)

ProcessPackIn(mv, fs, esc, srcs, arch, pack, old_pack_path, io, dest_base, destination) ==
    ProcessPackTo(mv, fs, esc, srcs, arch, pack, old_pack_path, io, dest_base,
                  destination, IsTemplateUpdate(fs, pack, destination))

\* process_pack: the MoveOperation it returns and the state it leaves.
\* old_pack_path is one of OldPackChoices, io the step the environment fails.
process_pack(mv, fs, esc, srcs, arch, pack, scan_dir, old_pack_path, io) ==
    IF ~IsSome(DestBase(mv.settings, pack, scan_dir))
    THEN NoDestination(mv, fs, esc, pack)
    ELSE ProcessPackIn(mv, fs, esc, srcs, arch, pack, old_pack_path, io,
                       Unwrap(DestBase(mv.settings, pack, scan_dir)),
                       Folder(Unwrap(DestBase(mv.settings, pack, scan_dir)),
                              pack.name \o type_suffix(pack.pack_type)))

\* a rollback_last that puts the entry back when it fails
PutsBack(mv, fs, io) ==
    LET n == Len(mv.history)
    IN  IF n > 0 /\ ~mv.settings.dry_run
           /\ (~Exists(fs, Unwrap(mv.history[n].destination)) \/ io = "remove")
        THEN [ret |-> None, fs |-> fs, history |-> mv.history,
              error |-> Some(ErrRemove)]
        ELSE [ret |-> IF n = 0 THEN None ELSE Some(mv.history[n]),
              fs |-> IF n = 0 \/ mv.settings.dry_run THEN fs
                     ELSE RemoveDirAll(fs, Unwrap(mv.history[n].destination)),
              history |-> SubSeq(mv.history, 1, n - 1), error |-> None]

\* rollback_last: the Option<MoveOperation> it returns and the state it leaves
rollback_last(mv, fs, io) ==
    LET n  == Len(mv.history)
        op == mv.history[n]
        popped == SubSeq(mv.history, 1, n - 1)
    IN  IF n = 0
        THEN [ret |-> None, fs |-> fs, history |-> mv.history, error |-> None]
        ELSE IF mv.settings.dry_run
        THEN [ret |-> Some(op), fs |-> fs, history |-> popped, error |-> None]
        ELSE IF ~Exists(fs, Unwrap(op.destination))
        THEN [ret |-> None, fs |-> fs, history |-> popped,
              error |-> Some(ErrGone)]
        ELSE IF io = "remove"
        THEN [ret |-> None, fs |-> fs, history |-> popped,
              error |-> Some(ErrRemove)]
        ELSE [ret |-> Some(op), fs |-> RemoveDirAll(fs, Unwrap(op.destination)),
              history |-> popped, error |-> None]

(***************************************************************************)
(* The names, source files and archives the model draws its inputs from    *)
(***************************************************************************)
N_foo == <<"f","o","o">>    \* "foo"
N_Foo == <<"F","o","o">>    \* "Foo"
N_Foo10 == <<"F","o","o"," ","1",".","0">>    \* "Foo 1.0"
N_Foo20 == <<"F","o","o"," ","2",".","0">>    \* "Foo 2.0"
N_Foo7 == <<"F","o","o"," ","7">>    \* "Foo 7"
N_FooV2 == <<"F","o","o"," ","v","2">>    \* "Foo v2"
N_Multi == <<"M","u","l","t","i">>    \* "Multi"
N_Geo == <<"G","e","o">>    \* "Geo"
N_Tmpl == <<"T","m","p","l">>    \* "Tmpl"
N_Skin == <<"S","k","i","n">>    \* "Skin"
F_foo == <<"f","o","o",".","m","c","p","a","c","k">>    \* "foo.mcpack"
F_Foo == <<"F","o","o",".","m","c","p","a","c","k">>    \* "Foo.mcpack"
F_Foo10 == <<"F","o","o"," ","1",".","0",".","m","c","p","a","c","k">>    \* "Foo 1.0.mcpack"
F_Foo20 == <<"F","o","o"," ","2",".","0",".","m","c","p","a","c","k">>    \* "Foo 2.0.mcpack"
F_Foo7 == <<"F","o","o"," ","7",".","m","c","p","a","c","k">>    \* "Foo 7.mcpack"
F_FooV2 == <<"F","o","o"," ","v","2",".","m","c","p","a","c","k">>    \* "Foo v2.mcpack"
F_FooV2b == <<"F","o","o"," ","v","2",".","m","c","a","d","d","o","n">>    \* "Foo v2.mcaddon"
F_FooNoVer == <<"F","o","o",".","m","c","a","d","d","o","n">>    \* "Foo.mcaddon"
F_Evil == <<"F","O","O",".","m","c","p","a","c","k">>    \* "FOO.mcpack"
N_FOO == <<"F","O","O">>    \* "FOO"
N_Broken == <<"B","r","o","k","e","n">>    \* "Broken"
N_Enc == <<"E","n","c">>    \* "Enc"
N_Cut == <<"C","u","t">>    \* "Cut"
F_Multi == <<"M","u","l","t","i",".","m","c","a","d","d","o","n">>    \* "Multi.mcaddon"
F_Broken == <<"B","r","o","k","e","n",".","m","c","p","a","c","k">>    \* "Broken.mcpack"
F_Enc == <<"E","n","c",".","m","c","p","a","c","k">>    \* "Enc.mcpack"
F_Cut == <<"C","u","t",".","m","c","p","a","c","k">>    \* "Cut.mcpack"
F_Geo == <<"G","e","o",".","m","c","p","a","c","k">>    \* "Geo.mcpack"
F_Tmpl == <<"T","m","p","l",".","m","c","t","e","m","p","l","a","t","e">>    \* "Tmpl.mctemplate"
F_Mash == <<"M","a","s","h","-","U","p"," ","F","o","o"," ","(","A","d","d","o","n",")",".","m","c","a","d","d","o","n">>    \* "Mash-Up Foo (Addon).mcaddon"
E_a_manifest == <<"a","/","m","a","n","i","f","e","s","t",".","j","s","o","n">>    \* "a/manifest.json"
E_sub_skins == <<"s","u","b","/","s","k","i","n","s",".","j","s","o","n">>    \* "sub/skins.json"
E_geometry_json == <<"g","e","o","m","e","t","r","y",".","j","s","o","n">>    \* "geometry.json"
E_readme == <<"r","e","a","d","m","e",".","t","x","t">>    \* "readme.txt"
E_bpx_manifest == <<"b","e","h","a","v","i","o","r","_","p","a","c","k","s","/","x","/","m","a","n","i","f","e","s","t",".","j","s","o","n">>    \* "behavior_packs/x/manifest.json"
F_SKIN == <<"S","K","I","N",".","M","C","P","A","C","K">>    \* "SKIN.MCPACK"
F_notes == <<"n","o","t","e","s",".","t","x","t">>    \* "notes.txt"
F_Skin == <<"S","k","i","n",".","m","c","p","a","c","k">>    \* "Skin.mcpack"
E_manifest == <<"m","a","n","i","f","e","s","t",".","j","s","o","n">>    \* "manifest.json"
E_a == <<"a",".","t","x","t">>    \* "a.txt"
E_tex == <<"t","e","x","t","u","r","e","s","/","b",".","p","n","g">>    \* "textures/b.png"
E_texdir == <<"t","e","x","t","u","r","e","s","/">>    \* "textures/"
E_evil == <<".",".","/",".",".","/","e","v","i","l">>    \* "../../evil"
E_bp_manifest == <<"b","p","/","m","a","n","i","f","e","s","t",".","j","s","o","n">>    \* "bp/manifest.json"
E_bp_js == <<"b","p","/","s",".","j","s">>    \* "bp/s.js"
E_bp_lnk == <<"b","p","/",".",".","/","l","n","k">>    \* "bp/../lnk"
E_rp_evil == <<"r","p","/",".",".","/","x">>    \* "rp/../x"
E_rp_manifest == <<"r","p","/","m","a","n","i","f","e","s","t",".","j","s","o","n">>    \* "rp/manifest.json"
E_bpx == <<"b","p","x","/","y",".","t","x","t">>    \* "bpx/y.txt"
E_b == <<"b",".","b","i","n">>    \* "b.bin"
E_skins == <<"s","k","i","n","s",".","j","s","o","n">>    \* "skins.json"
E_geo == <<"g","e","o","m","e","t","r","y","/","g",".","j","s","o","n">>    \* "geometry/g.json"
Sub_bp == <<"b","p">>    \* "bp"
Sub_rp == <<"r","p">>    \* "rp"
V_100 == <<"1",".","0",".","0">>    \* "1.0.0"
V_101 == <<"1",".","0",".","1">>    \* "1.0.1"
V_200 == <<"2",".","0",".","0">>    \* "2.0.0"

ScanDir == "/scan"
\* a directory scanned before settings.scan_location was set to ScanDir
DownloadsDir == "/downloads"
Src(file) == [dir |-> ScanDir, file |-> file]

Manifest(uuid, version) == [uuid |-> uuid, name |-> None, version |-> version]
Entry(name) == [name |-> name, symlink |-> FALSE, corrupt |-> "ok", json |-> None,
                size |-> 10]
ManifestEntry(name, uuid, version) ==
    [Entry(name) EXCEPT !.json = Some(Manifest(uuid, version))]
Symlink(name) == [Entry(name) EXCEPT !.symlink = TRUE]
Corrupt(name, how) == [Entry(name) EXCEPT !.corrupt = how]
Zip(entries) == [zip |-> TRUE, entries |-> entries]
NotZip == [zip |-> FALSE, entries |-> << >>]

\* the archive stored in each source file
ArchiveOf(path) ==
    CASE path.file = F_foo ->
            Zip(<<ManifestEntry(E_manifest, Some("U1"), Some(V_100)), Entry(E_a)>>)
      [] path.file = F_Foo ->
            Zip(<<ManifestEntry(E_manifest, Some("U1"), Some(V_101)), Entry(E_a),
                  Entry(E_texdir), Entry(E_tex)>>)
      [] path.file = F_Foo10 ->
            Zip(<<ManifestEntry(E_manifest, Some("U2"), Some(V_100)), Entry(E_a)>>)
      [] path.file = F_Foo20 ->
            Zip(<<ManifestEntry(E_manifest, Some("U2"), Some(V_200)), Entry(E_tex)>>)
      [] path.file = F_Foo7 ->
            Zip(<<ManifestEntry(E_manifest, Some("U3"), Some(V_100)), Entry(E_a)>>)
      [] path.file = F_FooV2 ->
            Zip(<<ManifestEntry(E_manifest, Some("U4"), Some(V_100)), Entry(E_a)>>)
      [] path.file = F_FooV2b ->
            Zip(<<ManifestEntry(E_manifest, Some("U4"), Some(V_101)), Entry(E_a)>>)
      [] path.file = F_FooNoVer ->
            Zip(<<ManifestEntry(E_manifest, Some("U1"), None), Entry(E_a)>>)
      [] path.file = F_Evil ->
            Zip(<<ManifestEntry(E_manifest, Some("U1"), Some(V_200)), Entry(E_a),
                  Entry(E_evil)>>)
      [] path.file = F_Multi ->
            Zip(<<ManifestEntry(E_bp_manifest, Some("U5"), Some(V_100)),
                  Symlink(E_bp_lnk), Entry(E_bp_js), Entry(E_bpx),
                  ManifestEntry(E_rp_manifest, Some("U6"), Some(V_100)),
                  Entry(E_rp_evil)>>)
      [] path.file = F_Enc ->
            Zip(<<Corrupt(E_a, "header"), Entry(E_evil)>>)
      [] path.file = F_Cut ->
            Zip(<<Entry(E_a), Corrupt(E_b, "data"), Entry(E_tex)>>)
      [] path.file = F_Geo ->
            Zip(<<Entry(E_skins), Entry(E_geo)>>)
      [] path.file = F_Tmpl ->
            Zip(<<ManifestEntry(E_manifest, Some("U7"), Some(V_100)), Entry(E_a)>>)
      [] path.file = F_Skin ->
            Zip(<<Entry(E_skins)>>)
      [] OTHER -> NotZip

\* std::fs::metadata(file).len() of a source file: the compressed archive
metadata_len(arch) == IF arch.zip THEN Some(6 * Len(arch.entries)) ELSE Some(4)

\* a PackInfo as scan_packs returns it
Pack(file, name, pack_type, subfolder) ==
    LET es == ArchiveOf(Src(file)).entries
        manifest_path == IF IsSome(subfolder)
                         THEN Unwrap(subfolder) \o <<"/">> \o E_manifest
                         ELSE E_manifest
        mf == {es[i].json : i \in {k \in 1..Len(es) : es[k].name = manifest_path}}
                 \ {None}
        m  == IF mf # {} THEN Unwrap(CHOOSE j \in mf : TRUE)
              ELSE Manifest(None, None)
    IN  [path |-> Src(file), name |-> name, pack_type |-> pack_type,
         uuid |-> m.uuid, version |-> m.version, subfolder |-> subfolder,
         folder_size |-> metadata_len(ArchiveOf(Src(file))),
         is_installed |-> None, is_update |-> None, installed_version |-> None]

Update(pack) == [pack EXCEPT !.is_update = Some(TRUE)]

\* the same candidate as a scan of another directory returned it
ScannedIn(dir, pack) == [pack EXCEPT !.path.dir = dir]

\* AppState.settings: no skin pack folder is configured
Settings(dry_run, delete_source) ==
    [behavior_pack_path |-> Some("/bp"), resource_pack_path |-> Some("/rp"),
     skin_pack_path |-> None, world_template_path |-> Some("/wt"),
     scan_location |-> Some(ScanDir),
     dry_run |-> dry_run, delete_source |-> delete_source]

EmptyFs == [q \in {} |-> [files |-> {}, dirs |-> {}]]

(***************************************************************************)
(* Install reconciler (lib.rs compute_pack_status)                         *)
(***************************************************************************)
Contains(s, sub) ==
    \E i \in 1..(Len(s) - Len(sub) + 1) : SubSeq(s, i, i + Len(sub) - 1) = sub

IsMashupName(name) ==
    \/ Contains(to_lowercase(name), <<"m","a","s","h","u","p">>)
    \/ Contains(to_lowercase(name), <<"m","a","s","h","-","u","p">>)
    \/ Contains(to_lowercase(name), <<"m","a","s","h"," ","u","p">>)

\* read_pack_metadata_fast: header of <folder>/manifest.json when it parses
read_pack_metadata_fast(content) ==
    LET mf == {f \in content.files : f.path = E_manifest /\ IsSome(f.json)}
    IN  IF mf = {} THEN Manifest(None, None)
        ELSE Unwrap((CHOOSE f \in mf : TRUE).json)

RECURSIVE SumSizes(_)
SumSizes(files) ==
    IF files = {} THEN 0
    ELSE LET f == CHOOSE x \in files : TRUE
         IN  f.size + SumSizes(files \ {f})

calculate_folder_size(fs, path) ==
    IF Exists(fs, path) THEN SumSizes(fs[path].files) ELSE 0

\* lines 1331-1336: the configured roots, in the order they are listed
PackFolderRoots(st) ==
    << <<"BehaviorPack", st.behavior_pack_path>>,
       <<"ResourcePack", st.resource_pack_path>>,
       <<"SkinPack", st.skin_pack_path>>,
       <<"WorldTemplate", st.world_template_path>> >>

\* lines 1348-1374: one folder of a root as an InstalledPackInfo
InstalledPack(fs, p, pack_type_str) ==
    LET m == read_pack_metadata_fast(fs[p])
    IN  [uuid |-> m.uuid,
         name |-> IF IsSome(m.name) THEN Unwrap(m.name) ELSE p.name,
         pack_type |-> IF IsMashupName(p.name) /\ pack_type_str = "WorldTemplate"
                       THEN "MashupPack" ELSE pack_type_str,
         version |-> m.version,
         path |-> p,
         folder_name |-> p.name]

RECURSIVE Orderings(_)
Orderings(S) ==
    IF S = {} THEN {<< >>}
    ELSE UNION {{<<x>> \o t : t \in Orderings(S \ {x})} : x \in S}

\* get_installed_packs_info: the roots in order, the folders of a root in
\* read_dir order, which the file system does not fix: every such listing
RECURSIVE InstalledFrom(_, _, _)
InstalledFrom(st, fs, k) ==
    IF k > Len(PackFolderRoots(st)) THEN {<< >>}
    ELSE LET ty   == PackFolderRoots(st)[k][1]
             root == PackFolderRoots(st)[k][2]
             here == IF IsSome(root)
                     THEN {InstalledPack(fs, p, ty) :
                              p \in {q \in DOMAIN fs : q.root = Unwrap(root)}}
                     ELSE {}
         IN  {a \o b : a \in Orderings(here), b \in InstalledFrom(st, fs, k + 1)}

get_installed_packs_info(st, fs) == InstalledFrom(st, fs, 1)

\* HashMap::collect keeps the last entry of a key; 0 when the key is absent
LastIndex(S) == IF S = {} THEN 0 ELSE CHOOSE i \in S : \A j \in S : j <= i

\* lines 211-216
InstalledIndex(pack, installed) ==
    IF IsSome(pack.uuid)
    THEN LastIndex({i \in 1..Len(installed) : installed[i].uuid = pack.uuid})
    ELSE LastIndex({i \in 1..Len(installed) :
                       /\ installed[i].pack_type = pack.pack_type
                       /\ extract_base_name(installed[i].name)
                            = extract_base_name(pack.name)})

\* line 220
UuidMatch(pack, ip) == IsSome(pack.uuid) /\ pack.uuid = ip.uuid

\* lines 222-230
NewVersion(pack, ip) ==
    IF UuidMatch(pack, ip)
    THEN OrElse(extract_version_from_name(pack.name),
         OrElse(extract_version_from_path(pack.path.file), pack.version))
    ELSE OrElse(pack.version,
         OrElse(extract_version_from_name(pack.name),
                extract_version_from_path(pack.path.file)))

\* lines 232-240
OldVersion(pack, ip) ==
    IF UuidMatch(pack, ip)
    THEN OrElse(extract_version_from_name(ip.folder_name),
         OrElse(extract_version_from_path(ip.path.name), ip.version))
    ELSE OrElse(ip.version,
         OrElse(extract_version_from_name(ip.name),
                extract_version_from_path(ip.path.name)))

\* lines 264-269: the larger size is more than 1.1 times the smaller
SizeDiffers(new_size, old_size) ==
    IF new_size > old_size THEN 10 * new_size > 11 * old_size
    ELSE 10 * old_size > 11 * new_size

\* lines 253-256: a version on one side only
OneSidedIsUpdate(pack) == pack.is_update

\* a reconciler that compares the two manifest versions and nothing else
ReconcileByManifest(pack, ip, fs) ==
    IF pack.version # ip.version
    THEN [pack EXCEPT !.is_installed = Some(TRUE), !.is_update = Some(TRUE),
                      !.installed_version = ip.version]
    ELSE [pack EXCEPT !.is_installed = Some(TRUE),
                      !.installed_version = ip.version]

\* lines 218-275: one candidate against the installed pack it matched
Reconcile(pack, ip, fs) ==
    LET new_ver == NewVersion(pack, ip)
        old_ver == OldVersion(pack, ip)
        inst    == [pack EXCEPT !.is_installed = Some(TRUE)]
    IN  IF IsSome(new_ver) /\ IsSome(old_ver)
        THEN (IF new_ver = old_ver
              THEN [inst EXCEPT !.installed_version = old_ver]
              ELSE [inst EXCEPT !.is_update = Some(TRUE),
                                !.installed_version = old_ver])
        ELSE IF IsSome(new_ver) \/ IsSome(old_ver)
        THEN [inst EXCEPT !.is_update = OneSidedIsUpdate(pack),
                          !.installed_version = old_ver]
        ELSE IF /\ IsSome(pack.folder_size)
                /\ SizeDiffers(Unwrap(pack.folder_size),
                               calculate_folder_size(fs, ip.path))
        THEN [inst EXCEPT !.is_update = Some(TRUE)]
        ELSE inst

\* compute_pack_status on the installed packs as listed
compute_pack_status(packs, installed, fs) ==
    [i \in 1..Len(packs) |->
        IF InstalledIndex(packs[i], installed) = 0 THEN packs[i]
        ELSE Reconcile(packs[i],
                       installed[InstalledIndex(packs[i], installed)], fs)]


(***************************************************************************)
(* SpecMover: one FileMover, its process_pack and rollback_last called in  *)
(* any order on a file system that starts with no pack folder.             *)
(***************************************************************************)
MaxCalls == 2

AllSources ==
    {Src(f) : f \in {F_foo, F_Foo, F_Foo10, F_Foo20, F_Foo7, F_FooV2, F_FooV2b,
                     F_FooNoVer, F_Evil, F_Multi, F_Broken, F_Enc, F_Cut,
                     F_Geo, F_Tmpl, F_Skin}}
    \cup {[dir |-> DownloadsDir, file |-> F_Geo]}

MoverPacks ==
    {Pack(F_foo, N_foo, "BehaviorPack", None),
     Update(Pack(F_Foo, N_Foo, "BehaviorPack", None)),
     Update(Pack(F_Evil, N_FOO, "BehaviorPack", None)),
     Pack(F_Foo10, N_Foo10, "BehaviorPack", None),
     Update(Pack(F_Foo20, N_Foo20, "BehaviorPack", None)),
     Pack(F_Multi, N_Multi, "BehaviorPack", Some(Sub_bp)),
     Pack(F_Multi, N_Multi, "ResourcePack", Some(Sub_rp)),
     Pack(F_Broken, N_Broken, "ResourcePack", None),
     Pack(F_Enc, N_Enc, "ResourcePack", None),
     Pack(F_Cut, N_Cut, "ResourcePack", None),
     Pack(F_Geo, N_Geo, "SkinPack4D", None),
     ScannedIn(DownloadsDir, Pack(F_Geo, N_Geo, "SkinPack4D", None)),
     Pack(F_Cut, N_Cut, "Unknown", None),
     Pack(F_Tmpl, N_Tmpl, "WorldTemplate", None),
     Pack(F_Skin, N_Skin, "SkinPack", None)}

\* the folders a non-dry-run install of the candidate leaves
InstalledOn(fs, pack) ==
    process_pack(FileMoverNew(Settings(FALSE, FALSE)), fs, {}, AllSources,
                 ArchiveOf(pack.path), pack, Some(ScanDir), None, "none").fs

\* the destination roots as an earlier session left them: "foo" and
\* "Foo 1.0" installed as behavior packs
EarlierInstalls ==
    InstalledOn(InstalledOn(EmptyFs, Pack(F_foo, N_foo, "BehaviorPack", None)),
                Pack(F_Foo10, N_Foo10, "BehaviorPack", None))

NoCall == [call |-> "none", pack |-> None, op |-> None, pre |-> EmptyFs,
           preHistory |-> << >>, preEscaped |-> {}, preSources |-> {},
           removed_old |-> FALSE,
           old |-> None, error |-> None]
NoPrev == [call |-> "none", success |-> FALSE, pre |-> EmptyFs, pack |-> None,
          op |-> None]
Summary(c) ==
    [call |-> c.call,
     success |-> IsSome(c.op) /\ Unwrap(c.op).success,
     pre |-> c.pre,
     pack |-> c.pack,
     op |-> c.op]

NoCmd == [pc |-> "idle", packs |-> << >>, results |-> << >>,
          processed_sources |-> << >>, ret |-> << >>, n |-> 0]
NoScan == [dir |-> None, call |-> "none", file |-> None, result |-> None]
NoStatus == [packs |-> << >>, installed |-> << >>, results |-> << >>]

InitMover ==
    /\ folders \in {EmptyFs, EarlierInstalls}
    /\ sources = AllSources
    /\ escaped = {}
    /\ history = << >>
    /\ last = NoCall
    /\ prev = NoPrev
    /\ steps = 0
    /\ settings \in {Settings(d, FALSE) : d \in BOOLEAN}
    /\ cmd = NoCmd
    /\ tpc = << >>
    /\ permits = 0
    /\ status = NoStatus
    /\ scan = NoScan

\* the state a process_pack call leaves, r being what it returned
ProcessPackDone(pack, old, r) ==
    /\ folders' = r.fs
    /\ escaped' = r.escaped
    /\ history' = r.history
    /\ last' = [call |-> "process_pack", pack |-> Some(pack),
                op |-> Some(r.op), pre |-> folders,
                preHistory |-> history, preEscaped |-> escaped,
                preSources |-> sources,
                removed_old |-> r.removed_old, old |-> old,
                error |-> r.op.error]

\* the state a rollback_last call leaves, r being what it returned
RollbackDone(r) ==
    /\ folders' = r.fs
    /\ history' = r.history
    /\ last' = [call |-> "rollback_last", pack |-> None,
                op |-> r.ret, pre |-> folders,
                preHistory |-> history, preEscaped |-> escaped,
                preSources |-> sources,
                removed_old |-> FALSE, old |-> None, error |-> r.error]

ProcessPackCall ==
    /\ steps < MaxCalls
    /\ \E pack \in MoverPacks, io \in IoFaults :
         \E old \in OldPackChoices(settings, folders, pack, settings.scan_location) :
           ProcessPackDone(pack, old,
               process_pack([settings |-> settings, history |-> history],
                            folders, escaped, sources, ArchiveOf(pack.path),
                            pack, settings.scan_location, old, io))
    /\ prev' = Summary(last)
    /\ steps' = steps + 1
    /\ UNCHANGED <<sources, settings, cmd, tpc, permits, status, scan>>

RollbackLastCall ==
    /\ steps < MaxCalls
    /\ \E io \in {"none", "remove"} :
           RollbackDone(rollback_last([settings |-> settings,
                                       history |-> history], folders, io))
    /\ prev' = Summary(last)
    /\ steps' = steps + 1
    /\ UNCHANGED <<sources, escaped, settings, cmd, tpc, permits, status, scan>>

NextMover == ProcessPackCall \/ RollbackLastCall

SpecMover == InitMover /\ [][NextMover]_vars

(***************************************************************************)
(* Claims about one FileMover (SpecMover)                                  *)
(***************************************************************************)
LastIsInstall ==
    /\ last.call = "process_pack"
    /\ ~settings.dry_run
LastPack == Unwrap(last.pack)
LastOp == Unwrap(last.op)
LastDestination == Unwrap(LastOp.destination)

\* every folder that existed before the last call is still there, unchanged
PreFoldersIntact ==
    \A p \in DOMAIN last.pre : Exists(folders, p) /\ folders[p] = last.pre[p]

\* C1: a non-dry-run process_pack on an update candidate either succeeds
\* with the output folder in place, or fails and leaves every folder that
\* existed before the call (stale folder, existing output folder) unchanged.
C1_AtomicReplace ==
    (LastIsInstall /\ unwrap_or_false(LastPack.is_update)) =>
        \/ LastOp.success /\ Exists(folders, LastDestination)
        \/ ~LastOp.success /\ PreFoldersIntact

\* C2: a successful non-dry-run process_pack followed immediately by
\* rollback_last on the same FileMover leaves the set of folders equal to
\* the set before the install.
C2_InstallRollbackRoundTrip ==
    (/\ last.call = "rollback_last"
     /\ prev.call = "process_pack"
     /\ prev.success
     /\ IsSome(last.op)
     /\ ~settings.dry_run)
        => DOMAIN folders = DOMAIN prev.pre

\* the entries the claim C7 speaks of: not a symlink, inside the candidate's
\* subfolder, with a parent-directory component in the relative path
TraversalEntries(pack) ==
    LET es == ArchiveOf(pack.path).entries
    IN  {i \in 1..Len(es) :
            /\ ~es[i].symlink
            /\ IsSome(RelativePath(es[i].name, pack.subfolder))
            /\ HasParentDir(Unwrap(RelativePath(es[i].name, pack.subfolder)))}

\* the planning pass gets as far as such an entry: the archive was opened
\* and no entry before it failed to read
PlanningReachesTraversal(pack, op) ==
    /\ op.error \notin {Some(ErrRemoveExisting), Some(ErrCreateDir),
                        Some(ErrOpenFile), Some(ErrReadArchive)}
    /\ \E i \in TraversalEntries(pack) :
          \A j \in 1..(i - 1) : ArchiveOf(pack.path).entries[j].corrupt # "header"

\* C7: when an entry considered for extraction has a '..' component, the
\* install fails before any archive file is written: success = false,
\* nothing appended to the undo log, nothing created outside the output
\* folder, and the error is the security error whenever the planning pass
\* considers the entry.
C7_TraversalIsHardFailure ==
    (/\ LastIsInstall
     /\ IsSome(LastOp.destination)
     /\ TraversalEntries(LastPack) # {})
        => /\ ~LastOp.success
           /\ history = last.preHistory
           /\ escaped = last.preEscaped
           /\ DOMAIN folders \subseteq (DOMAIN last.pre) \cup {LastDestination}
           /\ Exists(folders, LastDestination)
                 => (\/ folders[LastDestination].files = {}
                     \/ /\ Exists(last.pre, LastDestination)
                        /\ folders[LastDestination] = last.pre[LastDestination])
           /\ PlanningReachesTraversal(LastPack, LastOp)
                 => LastOp.error = Some(ErrSecurity)

C7_Witness ==
    /\ LastIsInstall
    /\ IsSome(LastOp.destination)
    /\ TraversalEntries(LastPack) # {}
    /\ PlanningReachesTraversal(LastPack, LastOp)
    /\ LastOp.error = Some(ErrSecurity)
    /\ Exists(folders, LastDestination)

\* C9: after a successful non-dry-run install of a non-4D candidate flagged
\* is_update, no other folder of the destination root has the candidate's
\* base name (type suffix and trailing version token stripped, compared
\* case-insensitively).
C9_NoOrphanedOldVersion ==
    (/\ LastIsInstall
     /\ LastOp.success
     /\ LastPack.pack_type # "SkinPack4D"
     /\ unwrap_or_false(LastPack.is_update))
        => \A p \in DOMAIN folders :
              (p.root = LastDestination.root /\ p # LastDestination)
                  => extract_base_name(p.name) # extract_base_name(LastPack.name)


(***************************************************************************)
(* SpecStatus: installs interleaved with compute_pack_status               *)
(***************************************************************************)
MaxStatusCalls == 3

StatusPacks ==
    {Pack(F_foo, N_foo, "BehaviorPack", None),
     Pack(F_Foo, N_Foo, "BehaviorPack", None),
     Pack(F_FooNoVer, N_Foo, "BehaviorPack", None),
     Pack(F_Foo7, N_Foo7, "BehaviorPack", None),
     Pack(F_FooV2, N_FooV2, "BehaviorPack", None),
     Pack(F_FooV2b, N_FooV2, "BehaviorPack", None),
     Pack(F_Cut, N_Cut, "ResourcePack", None),
     Pack(F_Tmpl, N_Tmpl, "WorldTemplate", None)}

InitStatus ==
    /\ folders \in {EmptyFs, EarlierInstalls}
    /\ sources = AllSources
    /\ escaped = {}
    /\ history = << >>
    /\ last = NoCall
    /\ prev = NoPrev
    /\ steps = 0
    /\ settings = Settings(FALSE, FALSE)
    /\ cmd = NoCmd
    /\ tpc = << >>
    /\ permits = 0
    /\ status = NoStatus
    /\ scan = NoScan

\* FileMover::process_pack on a candidate as scanned, or as the last status
\* check flagged it
StatusInstall ==
    /\ steps < MaxStatusCalls
    /\ \E pack \in StatusPacks
             \cup {status.results[i] : i \in 1..Len(status.results)} :
         \E old \in OldPackChoices(settings, folders, pack, settings.scan_location) :
           ProcessPackDone(pack, old,
               process_pack([settings |-> settings, history |-> history],
                            folders, escaped, sources, ArchiveOf(pack.path),
                            pack, settings.scan_location, old, "none"))
    /\ prev' = Summary(last)
    /\ steps' = steps + 1
    /\ UNCHANGED <<sources, settings, cmd, tpc, permits, status, scan>>

\* the compute_pack_status command on one candidate, as scanned or as the
\* last status check returned it
ComputePackStatusCall ==
    /\ steps < MaxStatusCalls
    /\ \E pack \in StatusPacks
             \cup {status.results[i] : i \in 1..Len(status.results)} :
         \E installed \in get_installed_packs_info(settings, folders) :
            status' = [packs |-> <<pack>>, installed |-> installed,
                       results |-> compute_pack_status(<<pack>>, installed, folders)]
    /\ last' = [call |-> "compute_pack_status", pack |-> None, op |-> None,
                pre |-> folders, preHistory |-> history, preEscaped |-> escaped,
                preSources |-> sources, removed_old |-> FALSE, old |-> None,
                error |-> None]
    /\ prev' = Summary(last)
    /\ steps' = steps + 1
    /\ UNCHANGED <<folders, sources, escaped, history, settings, cmd, tpc, permits,
                   scan>>

\* lines 1443-1454: a folder inside a configured directory that exists
CanDeletePack(st, fs, p) ==
    /\ Some(p.root) \in {st.behavior_pack_path, st.resource_pack_path,
                         st.skin_pack_path, st.world_template_path,
                         st.scan_location}
    /\ Exists(fs, p)

\* the delete_pack command on an installed folder
DeletePackCall ==
    /\ steps < MaxStatusCalls
    /\ \E p \in DOMAIN folders :
          /\ CanDeletePack(settings, folders, p)
          /\ folders' = RemoveDirAll(folders, p)
    /\ last' = [call |-> "delete_pack", pack |-> None, op |-> None,
                pre |-> folders, preHistory |-> history, preEscaped |-> escaped,
                preSources |-> sources, removed_old |-> FALSE, old |-> None,
                error |-> None]
    /\ prev' = Summary(last)
    /\ steps' = steps + 1
    /\ UNCHANGED <<sources, escaped, history, settings, cmd, tpc, permits,
                   status, scan>>

NextStatus == StatusInstall \/ ComputePackStatusCall \/ DeletePackCall

SpecStatus == InitStatus /\ [][NextStatus]_vars

(***************************************************************************)
(* Claims about the install reconciler (SpecStatus)                        *)
(***************************************************************************)
LastIsStatus == last.call = "compute_pack_status"
Candidate == status.packs[1]
Result == status.results[1]
Matched == InstalledIndex(Candidate, status.installed) # 0
MatchedInstalled == status.installed[InstalledIndex(Candidate, status.installed)]

\* the candidate was installed by the call just before the status check,
\* into a folder named display name + type suffix, its manifest as archived
InstalledJustBefore ==
    /\ LastIsStatus
    /\ prev.call = "process_pack"
    /\ prev.success
    /\ prev.pack = Some(Candidate)
    /\ IsSome(Candidate.uuid)
    /\ IsSome(Candidate.version)

\* C4: a candidate with a uuid and a manifest version that process_pack has
\* just installed is reported Installed-Same-Version by compute_pack_status:
\* is_installed = true and is_update not true.
C4_ReinstallIsSameVersion ==
    InstalledJustBefore =>
        /\ Result.is_installed = Some(TRUE)
        /\ Result.is_update # Some(TRUE)

\* C5: a candidate whose uuid equals the matched installed pack's uuid and
\* whose manifest version differs from the installed manifest version is
\* reported is_installed = true and is_update = true, whatever the names.
C5_ManifestVersionDecides ==
    (/\ LastIsStatus
     /\ Matched
     /\ UuidMatch(Candidate, MatchedInstalled)
     /\ IsSome(Candidate.version)
     /\ IsSome(MatchedInstalled.version)
     /\ Candidate.version # MatchedInstalled.version)
        => /\ Result.is_installed = Some(TRUE)
           /\ Result.is_update = Some(TRUE)

\* C5 as the code has it: on a uuid match the versions compared are the ones
\* resolved name first, then path, then manifest; when both resolve and
\* differ the candidate is reported is_installed = true and is_update = true.
C5_ResolvedVersionDecides ==
    (/\ LastIsStatus
     /\ Matched
     /\ UuidMatch(Candidate, MatchedInstalled)
     /\ IsSome(NewVersion(Candidate, MatchedInstalled))
     /\ IsSome(OldVersion(Candidate, MatchedInstalled))
     /\ NewVersion(Candidate, MatchedInstalled)
           # OldVersion(Candidate, MatchedInstalled))
        => /\ Result.is_installed = Some(TRUE)
           /\ Result.is_update = Some(TRUE)
           /\ Result.installed_version = OldVersion(Candidate, MatchedInstalled)

C5_Witness ==
    /\ LastIsStatus
    /\ Matched
    /\ UuidMatch(Candidate, MatchedInstalled)
    /\ IsSome(Candidate.version)
    /\ IsSome(MatchedInstalled.version)
    /\ Candidate.version # MatchedInstalled.version
    /\ NewVersion(Candidate, MatchedInstalled) = Candidate.version
    /\ OldVersion(Candidate, MatchedInstalled) = MatchedInstalled.version
    /\ Result.is_update = Some(TRUE)

\* C6: a candidate that matches an installed pack, with a version
\* determinable for exactly one of the two sides, is reported
\* Installed-Needs-Update: is_installed = true and is_update = true.
C6_OneSidedVersionIsUpdate ==
    (/\ LastIsStatus
     /\ Matched
     /\ IsSome(NewVersion(Candidate, MatchedInstalled))
           # IsSome(OldVersion(Candidate, MatchedInstalled)))
        => /\ Result.is_installed = Some(TRUE)
           /\ Result.is_update = Some(TRUE)


(***************************************************************************)
(* The process_packs and rollback_last commands (lib.rs)                   *)
\* C14: after compute_pack_status a candidate is Not-Installed,
\* Installed-Same-Version or Installed-Needs-Update: is_update = true never
\* comes without is_installed = true, and a candidate that matches no
\* installed pack has neither flag true, also when the candidate handed in
\* carried flags from an earlier call.
C14_ExclusiveStatus ==
    LastIsStatus
        => /\ (Result.is_update = Some(TRUE)) => (Result.is_installed = Some(TRUE))
           /\ ~Matched => /\ Result.is_installed # Some(TRUE)
                          /\ Result.is_update # Some(TRUE)

\* the installed packs with the candidate's uuid, and those with its
\* (pack_type, base name) key
SameUuid(pack, installed) ==
    {i \in 1..Len(installed) : IsSome(pack.uuid) /\ installed[i].uuid = pack.uuid}

SameBaseName(pack, installed) ==
    {i \in 1..Len(installed) :
        /\ installed[i].pack_type = pack.pack_type
        /\ extract_base_name(installed[i].name) = extract_base_name(pack.name)}

\* C15: a candidate whose uuid lookup finds no installed pack, having no
\* uuid or a uuid that no installed pack has, is looked up by
\* (pack_type, base name) and marked installed when that key matches.
C15_NameFallback ==
    (/\ LastIsStatus
     /\ SameUuid(Candidate, status.installed) = {}
     /\ SameBaseName(Candidate, status.installed) # {})
        => Result.is_installed = Some(TRUE)

(***************************************************************************)
\* byte order of the characters that occur in pack names
CharOrder ==
    <<" ", "(", ")", "-", ".", "/">> \o
    <<"0","1","2","3","4","5","6","7","8","9">> \o UpperChars \o <<"_">> \o
    LowerChars

Ord(c) == CHOOSE i \in 1..Len(CharOrder) : CharOrder[i] = c

\* str::cmp: lexicographic on bytes, a proper prefix is smaller
RECURSIVE StrLess(_, _)
StrLess(a, b) ==
    IF b = << >> THEN FALSE
    ELSE IF a = << >> THEN TRUE
    ELSE IF Head(a) # Head(b) THEN Ord(Head(a)) < Ord(Head(b))
    ELSE StrLess(Tail(a), Tail(b))

\* insert op after every element that is not greater: keeps the sort stable
RECURSIVE InsertByName(_, _)
InsertByName(sorted, op) ==
    IF sorted = << >> THEN <<op>>
    ELSE IF StrLess(op.pack_name, Head(sorted).pack_name)
    THEN <<op>> \o sorted
    ELSE <<Head(sorted)>> \o InsertByName(Tail(sorted), op)

\* final_results.sort_by(|a, b| a.pack_name.cmp(&b.pack_name))
RECURSIVE sort_by_pack_name(_)
sort_by_pack_name(results) ==
    IF results = << >> THEN << >>
    ELSE InsertByName(sort_by_pack_name(SubSeq(results, 1, Len(results) - 1)),
                      results[Len(results)])

\* line 311
max_concurrent == 8

\* an acquire that never waits
AcquiresAlways(available) == TRUE

\* line 326: semaphore.acquire() completes only when a permit is available
CanAcquire(available) == available > 0

\* line 337: the source is queued for deletion
QueuesSource(result, delete_source) == result.success /\ delete_source

\* lines 353-359: remove_file on every queued source, failures ignored
RemoveSources(srcs, processed_sources, delete_source) ==
    IF delete_source
    THEN srcs \ {processed_sources[i] : i \in 1..Len(processed_sources)}
    ELSE srcs

(***************************************************************************)
(* SpecCmd: the commands, process_packs as concurrent tasks                *)
(***************************************************************************)
MaxTasks == 9
MaxCmds == 2

RepeatPack(pack, n) == [i \in 1..n |-> pack]

\* the batches handed to process_packs: one candidate repeated, and mixed
\* batches of candidates as scanned and flagged
CmdBatches ==
    {RepeatPack(Pack(F_foo, N_foo, "BehaviorPack", None), MaxTasks)}
    \cup
    {<<Pack(F_Tmpl, N_Tmpl, "WorldTemplate", None),
       Pack(F_Skin, N_Skin, "SkinPack", None)>>,
     <<Update(Pack(F_Evil, N_FOO, "BehaviorPack", None)),
       Pack(F_foo, N_foo, "BehaviorPack", None)>>,
     <<Pack(F_Multi, N_Multi, "BehaviorPack", Some(Sub_bp)),
       Pack(F_Multi, N_Multi, "ResourcePack", Some(Sub_rp))>>,
     <<Pack(F_Geo, N_Geo, "SkinPack4D", None),
       Pack(F_Foo10, N_Foo10, "BehaviorPack", None)>>,
     <<Update(Pack(F_Foo, N_Foo, "BehaviorPack", None)),
       Pack(F_foo, N_foo, "BehaviorPack", None)>>,
     <<Pack(F_Cut, N_Cut, "Unknown", None),
       Pack(F_Skin, N_Skin, "SkinPack", None),
       Pack(F_foo, N_foo, "BehaviorPack", None)>>,
     <<Pack(F_Multi, N_Multi, "MashupPack", Some(Sub_bp)),
       Pack(F_Multi, N_Multi, "MashupPack", Some(Sub_rp))>>}

InitCmd ==
    /\ folders = EmptyFs
    /\ sources = AllSources
    /\ escaped = {}
    /\ history = << >>
    /\ last = NoCall
    /\ prev = NoPrev
    /\ steps = 0
    /\ settings \in {Settings(d, s) : d \in BOOLEAN, s \in BOOLEAN}
    /\ cmd = NoCmd
    /\ tpc = << >>
    /\ permits = 0
    /\ status = NoStatus
    /\ scan = NoScan

\* process_packs up to the spawn loop: a new FileMover, a semaphore of
\* max_concurrent permits, one task per candidate
ProcessPacksStart ==
    /\ cmd.pc = "idle"
    /\ cmd.n < MaxCmds
    /\ \E packs \in CmdBatches :
         /\ steps + Len(packs) <= MaxTasks
         /\ cmd' = [pc |-> "process_packs", packs |-> packs, results |-> << >>,
                    processed_sources |-> << >>, ret |-> << >>, n |-> cmd.n + 1]
         /\ tpc' = [i \in 1..Len(packs) |-> "spawned"]
         /\ steps' = steps + Len(packs)
    /\ history' = FileMoverNew(settings).history
    /\ permits' = max_concurrent
    /\ prev' = Summary(last)
    /\ last' = [call |-> "process_packs", pack |-> None, op |-> None,
                pre |-> folders, preHistory |-> history, preEscaped |-> escaped,
                preSources |-> sources, removed_old |-> FALSE, old |-> None,
                error |-> None]
    /\ UNCHANGED <<folders, sources, escaped, settings, status, scan>>

\* line 326: a task gets its permit
TaskAcquire(t) ==
    /\ cmd.pc = "process_packs"
    /\ tpc[t] = "spawned"
    /\ CanAcquire(permits)
    /\ permits' = permits - 1
    /\ tpc' = [tpc EXCEPT ![t] = "in_flight"]
    /\ UNCHANGED <<folders, sources, escaped, history, last, prev, steps,
                   settings, cmd, status, scan>>

\* a task that ends without giving its permit back
KeepsPermit(available) == available

\* line 342: the task ends, _permit is dropped and the permit returns to the
\* semaphore
DropPermit(available) == available + 1

\* lines 337-341: what a task does with the result r of its process_pack
TaskDone(pack, r) ==
    /\ folders' = r.fs
    /\ escaped' = r.escaped
    /\ history' = r.history
    /\ cmd' = [cmd EXCEPT
                 !.processed_sources =
                     IF QueuesSource(r.op, settings.delete_source)
                     THEN Append(@, pack.path) ELSE @,
                 !.results = Append(@, r.op)]

\* lines 335-342: process_pack, the source queued for deletion, the result
\* pushed; the permit is dropped as the task ends
TaskRun(t) ==
    /\ cmd.pc = "process_packs"
    /\ tpc[t] = "in_flight"
    /\ \E old \in OldPackChoices(settings, folders, cmd.packs[t],
                                  settings.scan_location) :
          TaskDone(cmd.packs[t],
              process_pack([settings |-> settings, history |-> history],
                           folders, escaped, sources,
                           ArchiveOf(cmd.packs[t].path), cmd.packs[t],
                           settings.scan_location, old, "none"))
    /\ permits' = DropPermit(permits)
    /\ tpc' = [tpc EXCEPT ![t] = "done"]
    /\ UNCHANGED <<sources, last, prev, steps, settings, status, scan>>

\* a join loop that waits for nothing
AwaitsNothing == TRUE

\* lines 347-349: the join loop returns once every handle has completed
AllHandlesAwaited == \A t \in 1..Len(tpc) : tpc[t] = "done"

\* lines 347-369: every handle awaited, the queued sources deleted, the
\* report sorted by pack name and returned; the FileMover goes with the call
ProcessPacksFinish ==
    /\ cmd.pc = "process_packs"
    /\ AllHandlesAwaited
    /\ sources' = RemoveSources(sources, cmd.processed_sources,
                                settings.delete_source)
    /\ cmd' = [cmd EXCEPT !.pc = "idle", !.ret = sort_by_pack_name(cmd.results)]
    /\ last' = [last EXCEPT !.op = IF history = << >> THEN None
                                   ELSE Some(history[Len(history)])]
    /\ history' = << >>
    /\ tpc' = << >>
    /\ permits' = 0
    /\ UNCHANGED <<folders, escaped, prev, steps, settings, status, scan>>

\* the rollback_last command: FileMover::rollback_last on a new FileMover
RollbackLastCmd ==
    /\ cmd.pc = "idle"
    /\ cmd.n < MaxCmds
    /\ RollbackDone(rollback_last(FileMoverNew(settings), folders, "none"))
    /\ prev' = Summary(last)
    /\ steps' = steps + 1
    /\ cmd' = [NoCmd EXCEPT !.ret = last'.op, !.n = cmd.n + 1]
    /\ UNCHANGED <<sources, escaped, settings, tpc, permits, status, scan>>

NextCmd ==
    \/ ProcessPacksStart
    \/ \E t \in 1..Len(tpc) : TaskAcquire(t)
    \/ \E t \in 1..Len(tpc) : TaskRun(t)
    \/ ProcessPacksFinish
    \/ RollbackLastCmd

SpecCmd == InitCmd /\ [][NextCmd]_vars

\* a started install returns: some task in flight becomes done
TaskReturns ==
    /\ cmd.pc = "process_packs"
    /\ \E t \in 1..Len(tpc) :
          tpc[t] = "in_flight" /\ tpc' = [tpc EXCEPT ![t] = "done"]

\* the join loop returns once every handle has completed
JoinReturns ==
    /\ cmd.pc = "process_packs"
    /\ AllHandlesAwaited
    /\ tpc' = << >>

\* the runtime runs every task that can run: a waiting task gets a free
\* permit, an install that was started returns (the steps of TaskRun), and
\* the command resumes after the join loop (the step of ProcessPacksFinish)
FairCmd ==
    /\ WF_vars(\E t \in 1..Len(tpc) : TaskAcquire(t))
    /\ WF_tpc(TaskReturns)
    /\ WF_tpc(JoinReturns)

\* one more command on an application that has served MaxCmds - 1 commands,
\* installing for real and deleting the sources
InitCmdFair ==
    /\ folders = EmptyFs
    /\ sources = AllSources
    /\ escaped = {}
    /\ history = << >>
    /\ last = NoCall
    /\ prev = NoPrev
    /\ steps = 0
    /\ settings = Settings(FALSE, TRUE)
    /\ cmd = [NoCmd EXCEPT !.n = MaxCmds - 1]
    /\ tpc = << >>
    /\ permits = 0
    /\ status = NoStatus
    /\ scan = NoScan

SpecCmdFair == InitCmdFair /\ [][NextCmd]_vars /\ FairCmd


(***************************************************************************)
(* Claims about the commands (SpecCmd)                                     *)
(***************************************************************************)
\* C3: after a process_packs command that logged at least one successful
\* non-dry-run install, the next rollback_last command returns the most
\* recently logged MoveOperation and its destination folder is gone.
C3_RollbackPopsInstallLog ==
    (/\ last.call = "rollback_last"
     /\ prev.call = "process_packs"
     /\ prev.success
     /\ ~settings.dry_run)
        => /\ last.op = prev.op
           /\ ~Exists(folders, Unwrap(Unwrap(prev.op).destination))

\* the record a dry run owes a candidate: success, at the would-be folder
DryRunRecorded(pack) ==
    \E k \in 1..Len(cmd.ret) :
        /\ cmd.ret[k].source = pack.path
        /\ cmd.ret[k].pack_type = pack.pack_type
        /\ cmd.ret[k].success
        /\ cmd.ret[k].destination =
              Some(Folder(Unwrap(DestBase(settings, pack, settings.scan_location)),
                          pack.name \o type_suffix(pack.pack_type)))

\* C8: with dry_run = true a process_packs batch changes nothing, whatever
\* delete_source is: no folder created or removed, no source archive
\* deleted, nothing logged; and once it has returned, every candidate with
\* a destination has a success = true record at the would-be destination.
C8_DryRunMutatesNothing ==
    (/\ last.call = "process_packs"
     /\ settings.dry_run)
        => /\ folders = last.pre
           /\ sources = last.preSources
           /\ escaped = last.preEscaped
           /\ history = << >>
           /\ cmd.pc = "idle" =>
                 /\ last.op = None
                 /\ \A i \in 1..Len(cmd.packs) :
                       IsSome(DestBase(settings, cmd.packs[i],
                                       settings.scan_location))
                          => DryRunRecorded(cmd.packs[i])

InFlight == {t \in 1..Len(tpc) : tpc[t] = "in_flight"}

\* C10: while process_packs runs, at most max_concurrent tasks are between
\* acquiring their permit and pushing their result, and every permit not
\* held by such a task is back in the semaphore.
C10_BoundedInFlight ==
    cmd.pc = "process_packs" =>
        /\ Cardinality(InFlight) <= max_concurrent
        /\ permits = max_concurrent - Cardinality(InFlight)

C10_Witness ==
    /\ cmd.pc = "process_packs"
    /\ Cardinality(InFlight) = max_concurrent
    /\ \E t \in 1..Len(tpc) : tpc[t] = "spawned"
    /\ permits = 0

\* the report of the batch when its installs run one after the other in the
\* order submitted
RECURSIVE ReportFrom(_, _, _)
ReportAfter(packs, i, r) == <<r.op>> \o ReportFrom(packs, i + 1, r)

ReportFrom(packs, i, r) ==
    IF i > Len(packs) THEN << >>
    ELSE ReportAfter(packs, i,
            process_pack([settings |-> settings, history |-> r.history],
                         r.fs, r.escaped, last.preSources, ArchiveOf(packs[i].path),
                         packs[i], settings.scan_location,
                         CHOOSE old \in OldPackChoices(settings, r.fs, packs[i],
                                                       settings.scan_location) : TRUE,
                         "none"))

InSubmissionOrder ==
    sort_by_pack_name(
        ReportFrom(cmd.packs, 1,
                   [fs |-> last.pre, escaped |-> last.preEscaped, history |-> << >>]))

\* C13: the sequence process_packs returns does not depend on the order in
\* which the concurrent installs complete: it has one record per submitted
\* candidate, is ordered by pack_name, and equals the report of the same
\* batch installed in submission order.
C13_ReportIndependentOfOrder ==
    (last.call = "process_packs" /\ cmd.pc = "idle")
        => /\ Len(cmd.ret) = Len(cmd.packs)
           /\ \A k \in 1..(Len(cmd.ret) - 1) :
                 ~StrLess(cmd.ret[k + 1].pack_name, cmd.ret[k].pack_name)
           /\ cmd.ret = InSubmissionOrder

\* C11: with delete_source = true no source archive is removed while an
\* install task of the batch has not finished: whenever a step removes a
\* source, every spawned task of the running batch is done.
C11_DeleteAfterAllInstalls ==
    [][(settings.delete_source /\ sources' # sources)
          => (/\ cmd.pc = "process_packs"
              /\ \A t \in 1..Len(tpc) : tpc[t] = "done")]_vars

C11_Witness ==
    /\ settings.delete_source
    /\ last.call = "process_packs"
    /\ cmd.pc = "idle"
    /\ Len(cmd.packs) >= 2
    /\ sources # last.preSources

(***************************************************************************)
(* Pack scanner (pack_detector.rs).  A manifest.json is the JSON document  *)
(* it parses to, as far as the scanner reads it: the types of its modules  *)
(* in order, and the header's capabilities, name, uuid and version.        *)
(***************************************************************************)
Digits == <<"0","1","2","3","4","5","6","7","8","9">>

\* u64::to_string
RECURSIVE NatToStr(_)
NatToStr(n) ==
    IF n < 10 THEN <<Digits[n + 1]>>
    ELSE NatToStr(n \div 10) \o <<Digits[(n % 10) + 1]>>

\* JSON values of header.version: an array (of numbers and other items), a
\* string, or something else
JNum(n) == [u64 |-> TRUE, n |-> n]
JNotNum == [u64 |-> FALSE, n |-> 0]
JArray(items) == [kind |-> "array", items |-> items, str |-> << >>]
JString(s) == [kind |-> "string", items |-> << >>, str |-> s]
JOther == [kind |-> "other", items |-> << >>, str |-> << >>]

Doc(modules, uuid, version) ==
    [modules |-> modules, capabilities |-> << >>, name |-> None,
     uuid |-> uuid, version |-> version]
DocEntry(name, doc) == [Entry(name) EXCEPT !.json = Some(doc)]

RECURSIVE JoinDots(_)
JoinDots(strs) ==
    IF strs = << >> THEN << >>
    ELSE IF Len(strs) = 1 THEN Head(strs)
    ELSE Head(strs) \o <<".">> \o JoinDots(Tail(strs))

\* lines 610-616: the u64 items of the array, joined with '.'
U64Strings(items) ==
    [i \in 1..Len(SelectSeq(items, LAMBDA x : x.u64)) |->
        NatToStr(SelectSeq(items, LAMBDA x : x.u64)[i].n)]

extract_uuid(json) == json.uuid

extract_version(json) ==
    IF json.version = None THEN None
    ELSE IF Unwrap(json.version).kind = "array"
         THEN Some(JoinDots(U64Strings(Unwrap(json.version).items)))
    ELSE IF Unwrap(json.version).kind = "string"
         THEN Some(Unwrap(json.version).str)
    ELSE None

\* lines 631-638: the type a module names, "" for any other module type
ModuleType(type_str) ==
    CASE type_str = "data"           -> "BehaviorPack"
      [] type_str = "resources"      -> "ResourcePack"
      [] type_str = "world_template" -> "WorldTemplate"
      [] type_str = "skin_pack"      -> "SkinPack"
      [] type_str = "script"         -> "BehaviorPack"
      [] OTHER                       -> ""

RECURSIVE FirstModuleType(_)
FirstModuleType(modules) ==
    IF modules = << >> THEN ""
    ELSE IF ModuleType(Head(modules)) # "" THEN ModuleType(Head(modules))
    ELSE FirstModuleType(Tail(modules))

NamesBehavior(lower) ==
    \/ Contains(lower, <<"b","e","h","a","v","i","o","r">>)
    \/ Contains(lower, <<"b","e","h","a","v","i","o","u","r">>)

determine_pack_type(json) ==
    IF FirstModuleType(json.modules) # "" THEN FirstModuleType(json.modules)
    ELSE IF \E i \in 1..Len(json.capabilities) :
                json.capabilities[i] = "scriptEngineVersion"
         THEN "BehaviorPack"
    ELSE IF /\ IsSome(json.name)
            /\ \/ NamesBehavior(to_lowercase(Unwrap(json.name)))
               \/ Contains(to_lowercase(Unwrap(json.name)), <<"a","d","d","o","n">>)
         THEN "BehaviorPack"
    ELSE "Unknown"

\* ZipArchive::by_index(i): fails on an entry whose header cannot be read
by_index_ok(e) == e.corrupt # "header"

\* ZipArchive::by_name: the entry of that name, when by_index reads it
by_name(entries, name) ==
    IF \E i \in 1..Len(entries) : entries[i].name = name
    THEN IF by_index_ok(entries[CHOOSE i \in 1..Len(entries) :
                                   entries[i].name = name])
         THEN Some(entries[CHOOSE i \in 1..Len(entries) : entries[i].name = name])
         ELSE None
    ELSE None

\* read_to_string and serde_json::from_str on an entry that was found
ParsedJson(found) ==
    IF IsSome(found) /\ Unwrap(found).corrupt = "ok" THEN Unwrap(found).json
    ELSE None

\* str::rfind('/'): 0 when there is none
rfind_slash(s) ==
    IF \E i \in 1..Len(s) : s[i] = "/"
    THEN CHOOSE i \in 1..Len(s) : s[i] = "/" /\ \A j \in (i + 1)..Len(s) : s[j] # "/"
    ELSE 0

\* str::split('/')
RECURSIVE split_slash(_)
split_slash(s) ==
    IF \E i \in 1..Len(s) : s[i] = "/"
    THEN <<SubSeq(s, 1, MinOf({i \in 1..Len(s) : s[i] = "/"}) - 1)>>
            \o split_slash(DropFirst(s, MinOf({i \in 1..Len(s) : s[i] = "/"})))
    ELSE <<s>>

CleanSuffixes ==
    <<<<" ","(","a","d","d","o","n",")">>, <<"(","a","d","d","o","n",")">>, <<" ","(","b","e","h","a","v","i","o","r",")">>, <<"(","b","e","h","a","v","i","o","r",")">>,
      <<" ","(","r","e","s","o","u","r","c","e",")">>, <<"(","r","e","s","o","u","r","c","e",")">>, <<" ","(","r","e","s","o","u","r","c","e","s",")">>, <<"(","r","e","s","o","u","r","c","e","s",")">>,
      <<" ","(","b","p",")">>, <<"(","b","p",")">>, <<" ","(","r","p",")">>, <<"(","r","p",")">>,
      <<" ","(","w","o","r","l","d","_","t","e","m","p","l","a","t","e",")">>, <<"(","w","o","r","l","d","_","t","e","m","p","l","a","t","e",")">>, <<" ","(","t","e","m","p","l","a","t","e",")">>, <<"(","t","e","m","p","l","a","t","e",")">>,
      <<" ","(","s","k","i","n","_","p","a","c","k",")">>, <<"(","s","k","i","n","_","p","a","c","k",")">>, <<" ","(","s","k","i","n",")">>, <<"(","s","k","i","n",")">>>>

\* lines 440-448: the first suffix the name ends with, compared in lower case
clean_pack_name(name) ==
    trim(DropLast(name, Len(name) - Len(StripFirstSuffix(to_lowercase(name), CleanSuffixes))))

is_mashup_name(name) == IsMashupName(name)

\* lines 587-597
check_4d_in_archive(entries) ==
    \E i \in 1..Len(entries) :
        /\ by_index_ok(entries[i])
        /\ Contains(to_lowercase(entries[i].name), <<"g","e","o","m","e","t","r","y">>)
        /\ ends_with(to_lowercase(entries[i].name), <<".","j","s","o","n">>)

\* lines 123-168: needs_attention of a 4D skin pack
HasReadme(entries) ==
    \E i \in 1..Len(entries) :
        /\ by_index_ok(entries[i])
        /\ \/ Contains(to_lowercase(entries[i].name), <<"r","e","a","d","m","e">>)
           \/ Contains(to_lowercase(entries[i].name), <<"i","n","s","t","r","u","c","t","i","o","n","s">>)
           \/ Contains(to_lowercase(entries[i].name), <<"i","n","s","t","a","l","l">>)
        /\ \/ ends_with(to_lowercase(entries[i].name), <<".","t","x","t">>)
           \/ ends_with(to_lowercase(entries[i].name), <<".","m","d">>)

GeometryFolders(entries) ==
    {split_slash(to_lowercase(entries[i].name))[1] :
        i \in {k \in 1..Len(entries) :
                  /\ by_index_ok(entries[k])
                  /\ Contains(to_lowercase(entries[k].name), <<"g","e","o","m","e","t","r","y">>)
                  /\ Contains(entries[k].name, <<"/">>)}}

check_4d_special_files(entries) ==
    HasReadme(entries) \/ Cardinality(GeometryFolders(entries)) > 1

\* lines 29-46: whether skins.json is in the archive, and the folder of the
\* first nested one
SkinsAtRoot(entries) == IsSome(by_name(entries, E_skins))

SkinsNested(entries) ==
    {i \in 1..Len(entries) :
        by_index_ok(entries[i]) /\ ends_with(entries[i].name, E_skins)}

\* a scan that looks for skins.json at the root only
SkinsAtRootOnly(entries) == SkinsAtRoot(entries)

has_skins_json(entries) == SkinsAtRoot(entries) \/ SkinsNested(entries) # {}

skins_json_subfolder(entries) ==
    IF SkinsAtRoot(entries) \/ SkinsNested(entries) = {} THEN None
    ELSE IF rfind_slash(entries[MinOf(SkinsNested(entries))].name) = 0 THEN None
    ELSE Some(SubSeq(entries[MinOf(SkinsNested(entries))].name, 1,
                     rfind_slash(entries[MinOf(SkinsNested(entries))].name) - 1))

\* a PackInfo as the scanner builds it
Candidate0(path, name, pack_type, uuid, version, subfolder, needs_attention) ==
    [path |-> path, name |-> name, pack_type |-> pack_type, uuid |-> uuid,
     version |-> version, subfolder |-> subfolder, folder_size |-> None,
     needs_attention |-> needs_attention,
     is_installed |-> None, is_update |-> None, installed_version |-> None]

\* lines 48-81
SkinCandidate(path, name, entries) ==
    <<Candidate0(path, name,
                 IF check_4d_in_archive(entries) THEN "SkinPack4D" ELSE "SkinPack",
                 None, None, skins_json_subfolder(entries),
                 Some(check_4d_in_archive(entries) /\ check_4d_special_files(entries)))>>

\* lines 178-201: the entries named *manifest.json that by_index reads
ManifestEntries(entries) ==
    {i \in 1..Len(entries) :
        by_index_ok(entries[i]) /\ ends_with(entries[i].name, E_manifest)}

manifest_folders(entries) ==
    {SubSeq(entries[i].name, 1, rfind_slash(entries[i].name) - 1) :
        i \in {k \in ManifestEntries(entries) : rfind_slash(entries[k].name) > 1}}

has_root_manifest(entries) ==
    \E i \in ManifestEntries(entries) : rfind_slash(entries[i].name) = 0

\* lines 204-221
is_world_template(entries) ==
    \E i \in ManifestEntries(entries) :
        /\ entries[i].corrupt = "ok"
        /\ ~Contains(entries[i].name, <<"/">>)
        /\ IsSome(entries[i].json)
        /\ \E m \in 1..Len(Unwrap(entries[i].json).modules) :
              Unwrap(entries[i].json).modules[m] = "world_template"

IsPackContainer(container) ==
    container \in {<<"b","e","h","a","v","i","o","r","_","p","a","c","k","s">>, <<"b","e","h","a","v","i","o","u","r","_","p","a","c","k","s">>, <<"r","e","s","o","u","r","c","e","_","p","a","c","k","s">>}

\* lines 227-279: the pack folder a manifest folder stands for, if any
SubfolderOf(folder, parts, world_template) ==
    IF Len(parts) = 1 THEN Some(folder)
    ELSE IF world_template /\ IsPackContainer(to_lowercase(parts[1])) THEN None
    ELSE IF Len(parts) = 2 THEN Some(folder)
    ELSE Some(parts[1] \o <<"/">> \o parts[2])

SubfolderSet(entries) ==
    {Unwrap(o) : o \in {SubfolderOf(f, split_slash(f), is_world_template(entries)) :
                          f \in manifest_folders(entries)} \ {None}}

\* lines 293-301
is_behavior_pack(s) ==
    \/ NamesBehavior(s)
    \/ Contains(s, <<"p","p","a","c","k","0">>)
    \/ Contains(s, <<"/","b","p","0">>)
    \/ Contains(s, <<"/","b","p","1">>)
    \/ ends_with(s, <<"p","a","c","k","0">>)
    \/ (Contains(s, <<"p","p","a","c","k">>) /\ Contains(s, <<"0">>))

\* lines 303-315: the comparator of the sort
SubfolderLess(a, b) ==
    IF is_behavior_pack(to_lowercase(a)) # is_behavior_pack(to_lowercase(b))
    THEN is_behavior_pack(to_lowercase(a))
    ELSE StrLess(to_lowercase(a), to_lowercase(b))

RECURSIVE SortSubfolders(_)
SortSubfolders(set) ==
    IF set = {} THEN << >>
    ELSE <<CHOOSE a \in set : \A b \in set \ {a} : ~SubfolderLess(b, a)>>
            \o SortSubfolders(set \ {CHOOSE a \in set :
                                        \A b \in set \ {a} : ~SubfolderLess(b, a)})

detect_subfolders(entries) ==
    IF is_world_template(entries) /\ has_root_manifest(entries) THEN << >>
    ELSE SortSubfolders(SubfolderSet(entries))

\* lines 474-486, 495-507: the type a subfolder's name stands for
SubfolderType(lower) ==
    IF \/ NamesBehavior(lower)
       \/ lower = <<"p","p","a","c","k","0">>
       \/ ends_with(lower, <<"/","p","p","a","c","k","0">>)
    THEN "BehaviorPack"
    ELSE IF \/ Contains(lower, <<"r","e","s","o","u","r","c","e">>)
            \/ lower = <<"p","p","a","c","k","1">>
            \/ ends_with(lower, <<"/","p","p","a","c","k","1">>)
    THEN "ResourcePack"
    ELSE "Unknown"

PackInfoOf(json, fallback) ==
    IF json = None THEN [pack_type |-> fallback, uuid |-> None, version |-> None]
    ELSE [pack_type |-> IF determine_pack_type(Unwrap(json)) = "Unknown"
                        THEN fallback
                        ELSE determine_pack_type(Unwrap(json)),
          uuid |-> extract_uuid(Unwrap(json)),
          version |-> extract_version(Unwrap(json))]

get_pack_info_from_subfolder(entries, subfolder) ==
    PackInfoOf(ParsedJson(by_name(entries, subfolder \o <<"/">> \o E_manifest)),
               SubfolderType(to_lowercase(subfolder)))

get_pack_info_from_archive(entries) ==
    PackInfoOf(ParsedJson(by_name(entries, E_manifest)), "Unknown")

\* lines 93-97: a world template with a mash-up file name
final_type(is_mashup, pack_type) ==
    IF is_mashup /\ pack_type = "WorldTemplate" THEN "MashupPack" ELSE pack_type

\* lines 343-346: every pack of a multi-pack archive with a mash-up file name
multi_pack_type(is_mashup, pack_type) ==
    IF is_mashup THEN "MashupPack" ELSE pack_type

SubfolderCandidate(path, name, is_mashup, subfolder, info) ==
    Candidate0(path, name, multi_pack_type(is_mashup, info.pack_type),
               info.uuid, info.version, Some(subfolder), None)

SingleCandidate(path, name, is_mashup, info) ==
    <<Candidate0(path, name, final_type(is_mashup, info.pack_type),
                 info.uuid, info.version, None, None)>>

\* lines 324-391
process_multi_pack_archive(path, file, entries, subfolders) ==
    [k \in 1..Len(subfolders) |->
        SubfolderCandidate(path, clean_pack_name(file_stem(file)),
                           is_mashup_name(file_stem(file)), subfolders[k],
                           get_pack_info_from_subfolder(entries, subfolders[k]))]

ScanByManifest(path, file, entries, subfolders) ==
    IF subfolders # << >>
    THEN process_multi_pack_archive(path, file, entries, subfolders)
    ELSE SingleCandidate(path, clean_pack_name(file_stem(file)),
                         is_mashup_name(file_stem(file)),
                         get_pack_info_from_archive(entries))

\* scan_single_pack on a file of the scan directory: f.fault = "unreadable"
\* when File::open fails, f.arch.zip = FALSE when it is not an archive
scan_single_pack(dir, f) ==
    IF f.fault = "unreadable" \/ ~f.arch.zip THEN << >>
    ELSE IF has_skins_json(f.arch.entries)
    THEN SkinCandidate([dir |-> dir, file |-> f.file],
                       clean_pack_name(file_stem(f.file)), f.arch.entries)
    ELSE ScanByManifest([dir |-> dir, file |-> f.file], f.file, f.arch.entries,
                        detect_subfolders(f.arch.entries))

(***************************************************************************)
(* scan_packs (lib.rs): the pack files of a directory scanned in parallel  *)
(***************************************************************************)
\* Path::extension
extension(file) ==
    IF file_stem(file) = file THEN None
    ELSE Some(DropFirst(file, Len(file_stem(file)) + 1))

\* lines 88, 93-98
IsPackFile(file) ==
    /\ IsSome(extension(file))
    /\ to_lowercase(Unwrap(extension(file))) \in {<<"m","c","p","a","c","k">>, <<"m","c","a","d","d","o","n">>, <<"m","c","t","e","m","p","l","a","t","e">>}

\* a scan in which a panic unwinds through the parallel iterator
CatchesNothing(f) == FALSE

\* lines 123-125, 138-144: catch_unwind returns Err when the scan of the
\* file panicked (f.fault = "panic")
CatchesPanic(f) == f.fault = "panic"

\* lines 122-144: what one file adds to the flat_map
FileCandidates(dir, f) ==
    IF CatchesPanic(f) THEN << >> ELSE scan_single_pack(dir, f)

\* lines 158-172: folder_size from the size of the source file
WithFileSize(pack, f) == [pack EXCEPT !.folder_size = metadata_len(f.arch)]

RECURSIVE ScanFiles(_, _)
ScanFiles(dir, files) ==
    IF files = << >> THEN << >>
    ELSE [k \in 1..Len(FileCandidates(dir, Head(files))) |->
             WithFileSize(FileCandidates(dir, Head(files))[k], Head(files))]
         \o ScanFiles(dir, Tail(files))

Unwinds(files) ==
    \E i \in 1..Len(files) : files[i].fault = "panic" /\ ~CatchesPanic(files[i])

ScanErr(e, st) == [ok |-> FALSE, error |-> e, packs |-> << >>, settings |-> st]

ScanOk(packs, st) == [ok |-> TRUE, error |-> "", packs |-> packs, settings |-> st]

ScanPackFiles(directory, files, st) ==
    IF files = << >> THEN ScanOk(<< >>, st)
    ELSE IF Unwinds(files) THEN ScanErr("Scan failed", st)
    ELSE ScanOk(ScanFiles(directory, files),
                [st EXCEPT !.scan_location = Some(directory)])

\* scan_packs(directory): listing is what read_dir returns, None when the
\* directory does not exist
scan_packs(directory, listing, st) ==
    IF listing = None THEN ScanErr("Directory does not exist", st)
    ELSE ScanPackFiles(directory,
                       SelectSeq(Unwrap(listing), LAMBDA f : IsPackFile(f.file)), st)

(***************************************************************************)
(* SpecScan: scan_packs over the directories the model draws               *)
(***************************************************************************)
MaxScanFiles == 3

File(file, fault, arch) == [file |-> file, fault |-> fault, arch |-> arch]

D_data == Doc(<<"data">>, Some("U1"), Some(JArray(<<JNum(1), JNum(0), JNum(0)>>)))
D_tmpl == Doc(<<"world_template">>, Some("U7"), Some(JString(V_100)))
D_bp == Doc(<<"javascript", "data", "resources">>, Some("U5"), Some(JArray(<<JNum(1), JNum(2)>>)))
D_rp == Doc(<<"resources">>, Some("U6"), Some(JArray(<<JNum(2), JNotNum, JNum(10)>>)))
D_bare == Doc(<< >>, None, Some(JOther))

\* the files a scan directory may hold
ScanDirPool ==
    {File(F_Foo, "none", Zip(<<DocEntry(E_manifest, D_data), Entry(E_a)>>)),
     File(F_Multi, "none", Zip(<<DocEntry(E_bp_manifest, D_bp),
                                 DocEntry(E_rp_manifest, D_rp)>>)),
     File(F_Broken, "none", NotZip),
     File(F_Enc, "unreadable", Zip(<<DocEntry(E_manifest, D_data)>>)),
     File(F_Cut, "panic", Zip(<<DocEntry(E_manifest, D_data)>>)),
     File(F_SKIN, "none", Zip(<<Entry(E_skins), Entry(E_geo)>>)),
     File(F_notes, "none", NotZip)}

\* the orders read_dir may list some of them in
Listings(pool, n) ==
    {l \in UNION {[1..k -> pool] : k \in 0..n} :
        \A i, j \in 1..Len(l) : i # j => l[i] # l[j]}

InitScan ==
    /\ folders = EmptyFs
    /\ sources = {}
    /\ escaped = {}
    /\ history = << >>
    /\ last = NoCall
    /\ prev = NoPrev
    /\ steps = 0
    /\ settings = [Settings(FALSE, FALSE) EXCEPT !.scan_location = None]
    /\ cmd = NoCmd
    /\ tpc = << >>
    /\ permits = 0
    /\ status = NoStatus
    /\ scan \in {[NoScan EXCEPT !.dir = d] :
                    d \in {None} \cup {Some(l) : l \in Listings(ScanDirPool, MaxScanFiles)}}

ScanPacksDone(r) ==
    /\ scan' = [scan EXCEPT !.call = "scan_packs", !.result = Some(r)]
    /\ settings' = r.settings

ScanPacksCall ==
    /\ scan.call = "none"
    /\ ScanPacksDone(scan_packs(ScanDir, scan.dir, settings))
    /\ steps' = steps + 1
    /\ UNCHANGED <<folders, sources, escaped, history, last, prev, cmd, tpc,
                   permits, status>>

NextScan == ScanPacksCall

SpecScan == InitScan /\ [][NextScan]_vars

(***************************************************************************)
(* Claims about scan_packs (SpecScan)                                      *)
(***************************************************************************)
ScannedFiles == SelectSeq(Unwrap(scan.dir), LAMBDA f : IsPackFile(f.file))

\* the M files of the claim: unreadable, not an archive, or panicking
FailsToScan(f) == f.fault \in {"unreadable", "panic"} \/ ~f.arch.zip

RECURSIVE CandidatesOfOthers(_)
CandidatesOfOthers(files) ==
    IF files = << >> THEN << >>
    ELSE (IF FailsToScan(Head(files)) THEN << >>
          ELSE scan_single_pack(ScanDir, Head(files)))
         \o CandidatesOfOthers(Tail(files))

ReturnedCandidates ==
    [k \in 1..Len(Unwrap(scan.result).packs) |->
        [Unwrap(scan.result).packs[k] EXCEPT !.folder_size = None]]

\* C12: scan_packs over an existing directory returns Ok with exactly the
\* candidates of the pack files that are readable archives and do not
\* panic, in listing order; a failing file adds nothing and no error or
\* panic reaches the caller.
C12_ScanToleratesFailingFiles ==
    (scan.call = "scan_packs" /\ IsSome(scan.dir))
        => /\ Unwrap(scan.result).ok
           /\ ReturnedCandidates = CandidatesOfOthers(ScannedFiles)

C12_Witness ==
    /\ scan.call = "scan_packs"
    /\ IsSome(scan.dir)
    /\ Len(ScannedFiles) = 3
    /\ \E i \in 1..3 : ScannedFiles[i].fault = "panic"
    /\ \E i \in 1..3 : ~ScannedFiles[i].arch.zip
    /\ Len(Unwrap(scan.result).packs) = 2

(***************************************************************************)
(* SpecClassify: scan_single_pack applied to the archives the model draws  *)
(***************************************************************************)
MaxEntries == 3

\* the entries an archive is made of
ClassifyEntries ==
    {DocEntry(E_manifest, D_data), DocEntry(E_manifest, D_tmpl),
     DocEntry(E_bp_manifest, D_bp), DocEntry(E_rp_manifest, D_rp),
     DocEntry(E_bpx_manifest, D_bare), DocEntry(E_a_manifest, D_rp),
     Entry(E_skins), Corrupt(E_skins, "header"), Entry(E_sub_skins),
     Entry(E_geo), Entry(E_geometry_json), Entry(E_readme)}

\* archives of up to n entries with distinct names
EntryLists(pool, n) ==
    {l \in Listings(pool, n) :
        \A i, j \in 1..Len(l) : i # j => l[i].name # l[j].name}

ClassifyInputs ==
    {File(file, "none", Zip(es)) :
        file \in {F_Foo, F_Mash}, es \in EntryLists(ClassifyEntries, MaxEntries)}
    \cup {File(F_Broken, "none", NotZip),
          File(F_Enc, "unreadable", Zip(<<DocEntry(E_manifest, D_data)>>))}

InitClassify ==
    /\ folders = EmptyFs
    /\ sources = {}
    /\ escaped = {}
    /\ history = << >>
    /\ last = NoCall
    /\ prev = NoPrev
    /\ steps = 0
    /\ settings = Settings(FALSE, FALSE)
    /\ cmd = NoCmd
    /\ tpc = << >>
    /\ permits = 0
    /\ status = NoStatus
    /\ scan \in {[NoScan EXCEPT !.file = Some(f)] : f \in ClassifyInputs}

ScanSinglePackCall ==
    /\ scan.call = "none"
    /\ IsSome(scan.file)
    /\ scan' = [scan EXCEPT !.call = "scan_single_pack",
                            !.result = Some(scan_single_pack(ScanDir, Unwrap(scan.file)))]
    /\ steps' = steps + 1
    /\ UNCHANGED <<folders, sources, escaped, history, last, prev, settings,
                   cmd, tpc, permits, status>>

NextClassify == ScanSinglePackCall

SpecClassify == InitClassify /\ [][NextClassify]_vars

(***************************************************************************)
(* Claims about scan_single_pack (SpecClassify)                            *)
(***************************************************************************)
Classified ==
    /\ scan.call = "scan_single_pack"
    /\ Unwrap(scan.file).fault = "none"
    /\ Unwrap(scan.file).arch.zip

Entries == Unwrap(scan.file).arch.entries
Candidates == Unwrap(scan.result)

\* the root manifest.json documents whose first module has type "data"
RootDataManifests ==
    {Unwrap(Entries[i].json) :
        i \in {k \in 1..Len(Entries) :
                  /\ Entries[k].name = E_manifest
                  /\ Entries[k].corrupt = "ok"
                  /\ IsSome(Entries[k].json)
                  /\ Unwrap(Entries[k].json).modules # << >>
                  /\ Unwrap(Entries[k].json).modules[1] = "data"}}

\* C16: an archive with a root manifest.json whose first module has type
\* "data" scans to exactly one candidate, a BehaviorPack with the uuid and
\* version of that manifest's header, whatever else the archive contains.
C16_RootDataManifestIsOneBehaviorPack ==
    Classified =>
        \A m \in RootDataManifests :
            /\ Len(Candidates) = 1
            /\ Candidates[1].pack_type = "BehaviorPack"
            /\ Candidates[1].uuid = extract_uuid(m)
            /\ Candidates[1].version = extract_version(m)

\* an entry named skins.json, at the root or in a folder
NamedSkinsJson(name) == name = E_skins \/ ends_with(name, <<"/">> \o E_skins)

\* a .json entry below a folder whose path has "geometry" in it
UnderGeometryPath(name) ==
    /\ ends_with(to_lowercase(name), <<".","j","s","o","n">>)
    /\ rfind_slash(name) > 0
    /\ Contains(to_lowercase(SubSeq(name, 1, rfind_slash(name))), <<"g","e","o","m","e","t","r","y">>)

\* C17: an archive with an entry named skins.json, at the root or nested,
\* scans to exactly one candidate: SkinPack4D when some entry under a
\* geometry path ends in .json, SkinPack otherwise, whatever manifest.json
\* it holds.
C17_SkinsJsonIsOneSkinPack ==
    (Classified /\ \E i \in 1..Len(Entries) : NamedSkinsJson(Entries[i].name))
        => /\ Len(Candidates) = 1
           /\ Candidates[1].pack_type =
                 IF \E i \in 1..Len(Entries) : UnderGeometryPath(Entries[i].name)
                 THEN "SkinPack4D" ELSE "SkinPack"

\* C17 as the code has it: when some entry that the archive can read has a
\* name ending in skins.json, the scan returns one candidate without uuid;
\* it is SkinPack4D when some readable entry's lower-cased name contains
\* "geometry" and ends in ".json", SkinPack otherwise.
C17_ReadableSkinsJsonIsOneSkinPack ==
    (/\ Classified
     /\ \E i \in 1..Len(Entries) :
           by_index_ok(Entries[i]) /\ ends_with(Entries[i].name, E_skins))
        => /\ Len(Candidates) = 1
           /\ Candidates[1].uuid = None
           /\ Candidates[1].pack_type =
                 IF \E i \in 1..Len(Entries) :
                       /\ by_index_ok(Entries[i])
                       /\ Contains(to_lowercase(Entries[i].name), <<"g","e","o","m","e","t","r","y">>)
                       /\ ends_with(to_lowercase(Entries[i].name), <<".","j","s","o","n">>)
                 THEN "SkinPack4D" ELSE "SkinPack"

C17_Witness ==
    /\ Classified
    /\ \E i \in 1..Len(Entries) : Entries[i].name = E_sub_skins
    /\ \E i \in 1..Len(Entries) : Entries[i].name = E_manifest
    /\ \E i \in 1..Len(Entries) : Entries[i].name = E_geo
    /\ Len(Candidates) = 1
    /\ Candidates[1].pack_type = "SkinPack4D"
    /\ Candidates[1].subfolder = Some(<<"s","u","b">>)

\* the type the manifest of a candidate stands for
ManifestType(c) ==
    IF IsSome(c.subfolder)
    THEN get_pack_info_from_subfolder(Entries, Unwrap(c.subfolder)).pack_type
    ELSE get_pack_info_from_archive(Entries).pack_type

\* C18: every candidate scan_single_pack reports as MashupPack has a
\* manifest-derived type of WorldTemplate and comes from a file whose name
\* has a mash-up marker; a behavior, resource or unknown pack is never
\* reported as MashupPack.
C18_MashupIsRenamedWorldTemplate ==
    Classified =>
        \A k \in 1..Len(Candidates) :
            Candidates[k].pack_type = "MashupPack"
                => /\ is_mashup_name(file_stem(Unwrap(scan.file).file))
                   /\ ManifestType(Candidates[k]) = "WorldTemplate"

\* C26: in the candidate sequence scan_single_pack returns for a multi-pack
\* archive, every BehaviorPack candidate precedes every ResourcePack
\* candidate, and candidates of the same type are in case-insensitive order
\* of their subfolder paths.
C26_BehaviorBeforeResource ==
    (/\ Classified
     /\ ~has_skins_json(Entries)
     /\ detect_subfolders(Entries) # << >>)
        => \A i, j \in 1..Len(Candidates) :
              i < j =>
                 /\ ~(/\ Candidates[i].pack_type = "ResourcePack"
                      /\ Candidates[j].pack_type = "BehaviorPack")
                 /\ Candidates[i].pack_type = Candidates[j].pack_type
                       => ~StrLess(to_lowercase(Unwrap(Candidates[j].subfolder)),
                                   to_lowercase(Unwrap(Candidates[i].subfolder)))

\* the root manifest.json declares a world_template module
RootIsWorldTemplate ==
    \E i \in 1..Len(Entries) :
        /\ Entries[i].name = E_manifest
        /\ Entries[i].corrupt = "ok"
        /\ IsSome(Entries[i].json)
        /\ \E m \in 1..Len(Unwrap(Entries[i].json).modules) :
              Unwrap(Entries[i].json).modules[m] = "world_template"

\* the candidates anchored at the subfolder
AnchoredAt(folder) ==
    {k \in 1..Len(Candidates) : Candidates[k].subfolder = Some(folder)}

\* C25: in an archive (without skins.json) whose root manifest declares a
\* world_template module, a manifest folder under behavior_packs,
\* behaviour_packs or resource_packs yields no candidate, and every other
\* manifest folder one level deep, or two levels deep under skin_packs,
\* yields exactly one candidate anchored at that subfolder.
C25_WorldTemplateKeepsOtherFolders ==
    (/\ Classified
     /\ RootIsWorldTemplate
     /\ ~has_skins_json(Entries))
        => \A folder \in manifest_folders(Entries) :
              /\ (/\ Len(split_slash(folder)) >= 2
                  /\ IsPackContainer(to_lowercase(split_slash(folder)[1])))
                    => \A k \in 1..Len(Candidates) :
                          \/ Candidates[k].subfolder = None
                          \/ ~starts_with(Unwrap(Candidates[k].subfolder),
                                          split_slash(folder)[1])
              /\ (\/ Len(split_slash(folder)) = 1
                  \/ /\ Len(split_slash(folder)) = 2
                     /\ to_lowercase(split_slash(folder)[1]) = <<"s","k","i","n","_","p","a","c","k","s">>)
                    => Cardinality(AnchoredAt(folder)) = 1

(***************************************************************************)
(* SpecNames: the name heuristics applied to the names the model draws     *)
(***************************************************************************)
NamePrefixes == {<<"F","o","o">>, <<"f","o","o">>, <<"F","o","o"," ","P","a","c","k">>, <<"f","o","o"," ","p","a","c","k">>, <<"B","a","r">>}
NameVersions == {<< >>, <<" ","v","1",".","2",".","3">>, <<" ","7">>, <<" ","v","2",".","1">>, <<" ","v","3">>, <<" ","1",".","2">>, <<" ","v",".","4">>}
NameSuffixes == {<< >>, <<" ","(","b","e","t","a",")">>, <<" ","(","A","D","D","O","N",")">>, <<" ","(","a","d","d","o","n",")">>}

PackNames ==
    {p \o v \o s : p \in NamePrefixes, v \in NameVersions, s \in NameSuffixes}

NoNameCall == [call |-> "none", name |-> << >>, version |-> None, base_name |-> None]

InitNames ==
    /\ folders = EmptyFs
    /\ sources = {}
    /\ escaped = {}
    /\ history = << >>
    /\ last \in {[NoNameCall EXCEPT !.name = n] : n \in PackNames}
    /\ prev = NoPrev
    /\ steps = 0
    /\ settings = Settings(FALSE, FALSE)
    /\ cmd = NoCmd
    /\ tpc = << >>
    /\ permits = 0
    /\ status = NoStatus
    /\ scan = NoScan

ExtractVersionFromNameCall ==
    /\ last.version = None
    /\ last' = [last EXCEPT !.call = "extract_version_from_name",
                            !.version = Some(extract_version_from_name(last.name))]
    /\ steps' = steps + 1
    /\ UNCHANGED <<folders, sources, escaped, history, prev, settings,
                   cmd, tpc, permits, status, scan>>

ExtractBaseNameCall ==
    /\ last.base_name = None
    /\ last' = [last EXCEPT !.call = "extract_base_name",
                            !.base_name = Some(extract_base_name(last.name))]
    /\ steps' = steps + 1
    /\ UNCHANGED <<folders, sources, escaped, history, prev, settings,
                   cmd, tpc, permits, status, scan>>

NextNames == ExtractVersionFromNameCall \/ ExtractBaseNameCall

SpecNames == InitNames /\ [][NextNames]_vars

(***************************************************************************)
(* Claims about the name heuristics (SpecNames)                            *)
(***************************************************************************)
HasDigit(s) == \E i \in 1..Len(s) : IsDigit(s[i])

\* C19: extract_version_from_name gives "1.2.3" for "Foo v1.2.3", "7" for
\* "Foo 7 (beta)", and no version for a name without digits.
C19_VersionFromName ==
    IsSome(last.version) =>
        /\ last.name = <<"F","o","o"," ","v","1",".","2",".","3">> => Unwrap(last.version) = Some(<<"1",".","2",".","3">>)
        /\ last.name = <<"F","o","o"," ","7"," ","(","b","e","t","a",")">> => Unwrap(last.version) = Some(<<"7">>)
        /\ ~HasDigit(last.name) => Unwrap(last.version) = None

\* C20: extract_base_name gives "foo pack" both for "Foo Pack v2.1 (ADDON)"
\* and for "foo pack v3 (addon)".
C20_BaseNameOfVersions ==
    (/\ IsSome(last.base_name)
     /\ last.name \in {<<"F","o","o"," ","P","a","c","k"," ","v","2",".","1"," ","(","A","D","D","O","N",")">>, <<"f","o","o"," ","p","a","c","k"," ","v","3"," ","(","a","d","d","o","n",")">>})
        => Unwrap(last.base_name) = <<"f","o","o"," ","p","a","c","k">>

C20_Witness ==
    /\ last.name = <<"F","o","o"," ","P","a","c","k"," ","v","2",".","1"," ","(","A","D","D","O","N",")">>
    /\ last.call = "extract_base_name"
    /\ last.base_name = Some(<<"f","o","o"," ","p","a","c","k">>)

(***************************************************************************)
(* More claims about one FileMover (SpecMover)                             *)
(***************************************************************************)
\* C24: for a SkinPack4D candidate the destination process_pack uses is
\* <scan directory>/4D Skin Packs/<display name>: the base folder is the one
\* get_destination_path returns for SkinPack4D with that scan directory,
\* whatever the source path of the candidate.
C24_FourDDestinationUnderScanDir ==
    (/\ last.call = "process_pack"
     /\ LastPack.pack_type = "SkinPack4D")
        => /\ IsSome(LastOp.destination)
           /\ IsSome(get_destination_path(settings, "SkinPack4D",
                                          settings.scan_location))
           /\ LastDestination =
                 Folder(Unwrap(get_destination_path(settings, "SkinPack4D",
                                                    settings.scan_location)),
                        LastPack.name)

\* C29: for every non-dry-run process_pack result, deleted_old_path is
\* Some(P) exactly when the call removed the stale folder P: a removal that
\* failed is not reported, and a removal followed by a failed extraction is
\* still reported.
C29_DeletedOldPathIsWhatWasRemoved ==
    LastIsInstall =>
        LastOp.deleted_old_path = IF last.removed_old THEN last.old ELSE None

(***************************************************************************)
(* SpecUndo: the undo log of one FileMover over longer runs of             *)
(* process_pack and rollback_last, on a file system that starts empty      *)
(***************************************************************************)
MaxUndoCalls == 4

UndoPacks ==
    {Pack(F_foo, N_foo, "BehaviorPack", None),
     Update(Pack(F_Foo, N_Foo, "BehaviorPack", None)),
     Update(Pack(F_Evil, N_FOO, "BehaviorPack", None)),
     Pack(F_Skin, N_Skin, "SkinPack", None)}

InitUndo ==
    /\ folders = EmptyFs
    /\ sources = AllSources
    /\ escaped = {}
    /\ history = << >>
    /\ last = NoCall
    /\ prev = NoPrev
    /\ steps = 0
    /\ settings \in {Settings(d, FALSE) : d \in BOOLEAN}
    /\ cmd = NoCmd
    /\ tpc = << >>
    /\ permits = 0
    /\ status = NoStatus
    /\ scan = NoScan

UndoInstall ==
    /\ steps < MaxUndoCalls
    /\ \E pack \in UndoPacks, io \in IoFaults :
         \E old \in OldPackChoices(settings, folders, pack, settings.scan_location) :
           ProcessPackDone(pack, old,
               process_pack([settings |-> settings, history |-> history],
                            folders, escaped, sources, ArchiveOf(pack.path),
                            pack, settings.scan_location, old, io))
    /\ prev' = Summary(last)
    /\ steps' = steps + 1
    /\ UNCHANGED <<sources, settings, cmd, tpc, permits, status, scan>>

UndoRollback ==
    /\ steps < MaxUndoCalls
    /\ \E io \in {"none", "remove"} :
           RollbackDone(rollback_last([settings |-> settings,
                                       history |-> history], folders, io))
    /\ prev' = Summary(last)
    /\ steps' = steps + 1
    /\ UNCHANGED <<sources, escaped, settings, cmd, tpc, permits, status, scan>>

NextUndo == UndoInstall \/ UndoRollback

SpecUndo == InitUndo /\ [][NextUndo]_vars

(***************************************************************************)
(* Claims about the undo log (SpecUndo)                                    *)
(***************************************************************************)
\* the entry a rollback_last call popped
Popped == last.preHistory[Len(last.preHistory)]

\* the last call was a non-dry-run rollback_last that popped an entry
\* whose destination folder was gone or could not be removed
RollbackFailed ==
    /\ last.call = "rollback_last"
    /\ ~settings.dry_run
    /\ last.preHistory # << >>
    /\ \/ ~Exists(last.pre, Unwrap(Popped.destination))
       \/ last.error = Some(ErrRemove)

\* C21: when rollback_last pops an operation whose destination folder no
\* longer exists or cannot be removed, it returns None and does not put the
\* entry back: the undo log is one entry shorter than before the call, what
\* is left is the entries before the failed one, and no folder changed.
C21_FailedRollbackLosesEntry ==
    RollbackFailed =>
        /\ last.op = None
        /\ Len(history) = Len(last.preHistory) - 1
        /\ history = SubSeq(last.preHistory, 1, Len(last.preHistory) - 1)
        /\ folders = last.pre

C21_Witness ==
    /\ RollbackFailed
    /\ ~Exists(last.pre, Unwrap(Popped.destination))
    /\ last.error = Some(ErrGone)
    /\ last.op = None
    /\ history = << >>

\* C22: on one FileMover the undo log starts empty and changes only as
\* follows: a process_pack that succeeds outside dry-run appends its
\* MoveOperation at the end, a failed or dry-run process_pack leaves the log
\* alone, and rollback_last removes the last entry.  So the log always holds
\* the successful non-dry-run installs not yet popped, oldest first.
C22_LogHoldsLiveInstalls ==
    /\ history = << >>
    /\ [][/\ last'.call = "process_pack" =>
               history' = IF Unwrap(last'.op).success /\ ~settings.dry_run
                          THEN Append(history, Unwrap(last'.op))
                          ELSE history
          /\ last'.call = "rollback_last" =>
               history' = SubSeq(history, 1, Len(history) - 1)]_vars

C22_Witness ==
    /\ ~settings.dry_run
    /\ last.call = "rollback_last"
    /\ IsSome(last.op)
    /\ prev.call = "process_pack"
    /\ ~prev.success
    /\ Len(last.preHistory) = 2
    /\ Len(history) = 1
    /\ history[1].success

(***************************************************************************)
(* More claims about the commands (SpecCmd)                                *)
(***************************************************************************)
\* the candidate has no destination: its type is Unknown, or the folder of
\* its type is not configured
HasNoDestination(pack) ==
    \/ pack.pack_type = "Unknown"
    \/ /\ pack.pack_type # "SkinPack4D"
       /\ get_destination_path(settings, pack.pack_type, settings.scan_location) = None

\* the report holds a record for the candidate
Reported(ret, pack) ==
    \E k \in 1..Len(ret) :
        ret[k].source = pack.path /\ ret[k].pack_type = pack.pack_type

\* C23: process_pack for a candidate whose type is Unknown, or whose type
\* has no configured destination folder, returns success = false with the
\* error "No destination path configured" and changes no folder, no source
\* and not the undo log; the batch goes on: when process_packs returns, the
\* report has a record for every candidate of the batch.
C23_NoDestinationFailsSoft ==
    [][/\ \A t \in 1..Len(tpc) :
            (/\ cmd.pc = "process_packs"
             /\ cmd'.pc = "process_packs"
             /\ tpc[t] = "in_flight"
             /\ tpc'[t] = "done"
             /\ HasNoDestination(cmd.packs[t]))
               => /\ cmd'.results =
                        Append(cmd.results, cmd'.results[Len(cmd'.results)])
                  /\ cmd'.results[Len(cmd'.results)].source = cmd.packs[t].path
                  /\ ~cmd'.results[Len(cmd'.results)].success
                  /\ cmd'.results[Len(cmd'.results)].error = Some(ErrNoDestination)
                  /\ folders' = folders
                  /\ escaped' = escaped
                  /\ sources' = sources
                  /\ history' = history
       /\ (cmd.pc = "process_packs" /\ cmd'.pc = "idle")
               => /\ Len(cmd'.ret) = Len(cmd.packs)
                  /\ \A i \in 1..Len(cmd.packs) : Reported(cmd'.ret, cmd.packs[i])]_vars

C23_Witness ==
    /\ cmd.pc = "idle"
    /\ last.call = "process_packs"
    /\ ~settings.dry_run
    /\ Len(cmd.ret) = 3
    /\ \E k \in 1..3 : /\ cmd.ret[k].pack_type = "Unknown"
                       /\ cmd.ret[k].error = Some(ErrNoDestination)
    /\ \E k \in 1..3 : /\ cmd.ret[k].pack_type = "SkinPack"
                       /\ cmd.ret[k].error = Some(ErrNoDestination)
    /\ \E k \in 1..3 : /\ cmd.ret[k].pack_type = "BehaviorPack"
                       /\ cmd.ret[k].success
                       /\ Exists(folders, Unwrap(cmd.ret[k].destination))

\* the output folder of a candidate that has a destination
OutputFolder(pack) ==
    Folder(Unwrap(DestBase(settings, pack, settings.scan_location)),
           pack.name \o type_suffix(pack.pack_type))

\* C27: no two installs of a batch that are in flight at the same time have
\* the same output folder: candidates that resolve to the same destination
\* are never extracted concurrently.
C27_NoConcurrentSameDestination ==
    cmd.pc = "process_packs" =>
        \A t, u \in InFlight :
            (/\ t # u
             /\ ~HasNoDestination(cmd.packs[t])
             /\ ~HasNoDestination(cmd.packs[u]))
                => OutputFolder(cmd.packs[t]) # OutputFolder(cmd.packs[u])

\* C28: with delete_source = true a source archive that several candidates
\* of the batch were taken from is deleted only if every one of them
\* installed successfully: every record of the report whose source is a
\* deleted archive has success = true.
C28_SharedSourceKeptOnFailure ==
    (/\ last.call = "process_packs"
     /\ cmd.pc = "idle"
     /\ settings.delete_source)
        => \A k \in 1..Len(cmd.ret) :
              cmd.ret[k].source \in (last.preSources \ sources)
                  => cmd.ret[k].success

\* C30: under fair scheduling, with every extraction returning, a
\* process_packs call with N candidates terminates: every spawned task gets
\* a permit, pushes its result and gives the permit back, and the command
\* returns N records.
C30_BatchTerminates ==
    /\ (cmd.pc = "process_packs")
          ~> (/\ cmd.pc = "process_packs"
              /\ \A t \in 1..Len(tpc) : tpc[t] = "done"
              /\ Len(cmd.results) = Len(cmd.packs)
              /\ permits = max_concurrent)
    /\ (cmd.pc = "process_packs")
          ~> (cmd.pc = "idle" /\ Len(cmd.ret) = Len(cmd.packs))

C30_Witness ==
    /\ cmd.pc = "idle"
    /\ last.call = "process_packs"
    /\ Len(cmd.packs) = MaxTasks
    /\ Len(cmd.ret) = MaxTasks

====
